---- MODULE Spec2Model ----
(***************************************************************************)
(* A model of cellconstructor/Phonons.py: the Phonons container, its       *)
(* Quantum ESPRESSO loader (LoadFromQE) and writer (save_qe), Copy, the     *)
(* diagonalisation DyagDinQ and the operations built on it.                *)
(*                                                                         *)
(* Numbers.  A real number is modelled as an integer counting 1e-8 (Fix    *)
(* below), the resolution of the "%.8f" / "%12.8f" formats of save_qe.     *)
(* Masses are plain integers.  A frequency, the square root of an          *)
(* eigenvalue, counts 1e-4.                                                *)
(*                                                                         *)
(* Objects.  Python objects that the code shares by reference (Structure   *)
(* objects, the q_tot and q_stars lists) live in heaps; a Phonons field    *)
(* holds the identity of the object.  self.dynmats is a list every         *)
(* instance creates for itself and never hands out, so it is a value.      *)
(***************************************************************************)
EXTENDS Integers, Sequences, FiniteSets, TLC

\* ------------------------------------------------------------------ bounds
\* Number of Phonons objects the caller keeps.
MaxInst == 2
\* Largest nqirr argument a caller passes.
MaxNqirr == 3
\* Calls are not taken once an instance would hold more matrices than this.
MaxMats == 4

\* -------------------------------------------------------- program constants
\* One unit (1.0) in the fixed-point representation: 8 decimals.
FixDigits == 8
Fix == 10^FixDigits
\* BOHR_TO_ANGSTROM = 0.52918, as a count of 1e-5.
BOHR_TO_ANGSTROM == 52918
BohrDigits == 5
\* A_TO_BOHR = 1.889725989 in save_qe, as a count of 1e-9.
A_TO_BOHR == 1889725989
AToBohrDigits == 9
\* Field width of the "%12.8f" format of save_qe.
DynFieldWidth == 12
\* The relative tolerance 1e-6 of the round-trip property, as 1/RelTol.
RelTol == 10^6

\* An optional value: None is the empty sequence, a present value x is <<x>>.
None == <<>>
Some(x) == <<x>>

\* ----------------------------------------------------------------- numbers
Abs(x) == IF x < 0 THEN -x ELSE x
Sign(x) == IF x < 0 THEN -1 ELSE IF x > 0 THEN 1 ELSE 0

\* Exact products and quotients of 32-bit integers, on limbs in base 10^4 so
\* that no intermediate value leaves 32 bits.  A definition takes what it
\* uses more than once as a parameter, which is evaluated once.
Limb == 10^4
Limbs(x) == <<x % Limb, (x \div Limb) % Limb, x \div (Limb * Limb)>>
\* The columns of the long multiplication of two numbers of three limbs.
Columns(x, y) ==
  <<x[1] * y[1],
    x[1] * y[2] + x[2] * y[1],
    x[1] * y[3] + x[2] * y[2] + x[3] * y[1],
    x[2] * y[3] + x[3] * y[2],
    x[3] * y[3]>>
\* Half a unit of the decimal place k, 5*10^(k-1), added to its column.
AddHalf(c, k) ==
  [i \in 1..5 |-> c[i] + (IF i - 1 = (k - 1) \div 4 THEN 5 * 10^((k - 1) % 4) ELSE 0)]
\* The limbs of the number with columns c, from column i on.
RECURSIVE Carry(_, _, _)
Carry(c, i, carry) ==
  IF i = Len(c) THEN <<c[i] + carry>>
  ELSE <<(c[i] + carry) % Limb>> \o Carry(c, i + 1, (c[i] + carry) \div Limb)
\* The limbs 1..i of the quotient of the number with limbs p by E < 10^4.
RECURSIVE ShortDiv(_, _, _, _)
ShortDiv(p, i, rem, E) ==
  IF i = 0 THEN <<>>
  ELSE ShortDiv(p, i - 1, (rem * Limb + p[i]) % E, E) \o <<(rem * Limb + p[i]) \div E>>
\* The number whose limbs are u[m+1], u[m+2], u[m+3].
LimbAt(u, j) == IF j <= Len(u) THEN u[j] ELSE 0
FromLimbs(u, m) == LimbAt(u, m + 1) + LimbAt(u, m + 2) * Limb + LimbAt(u, m + 3) * Limb * Limb
\* a*n/10^k rounded to the nearest integer, for a, n >= 0 and 1 <= k <= 11.
MulPow10(a, n, k) ==
  FromLimbs(ShortDiv(Carry(AddHalf(Columns(Limbs(a), Limbs(n)), k), 1, 0),
                     5, 0, 10^(k % 4)),
            k \div 4)
\* x*n/10^k rounded to the nearest integer (halves away from zero), n >= 0:
\* the product of two floats, one of them counting 10^-k.
Scaled(x, n, k) == Sign(x) * MulPow10(Abs(x), n, k)

\* <<q, r>> after k more decimal digits of the long division by d, d < 2^31/10.
RECURSIVE DivDigits(_, _, _, _)
DivDigits(q, r, d, k) ==
  IF k = 0 THEN <<q, r>>
  ELSE DivDigits(10 * q + (10 * r) \div d, (10 * r) % d, d, k - 1)
RoundQuotient(qr, d) == IF 2 * qr[2] >= d THEN qr[1] + 1 ELSE qr[1]
\* x/d in fixed point, rounded to the nearest integer, 0 < d < 2^31/10.
Ratio(x, d) ==
  Sign(x) * RoundQuotient(DivDigits(Abs(x) \div d, Abs(x) % d, d, FixDigits), d)

\* |x - y| <= 1e-6 * |y|
Close(x, y) == Abs(x - y) <= Abs(y) \div RelTol

\* Largest r with r*r <= n, for 0 <= n < 2^30: the bits of r from the top.
RECURSIVE ISqrtBits(_, _, _)
ISqrtBits(n, r, b) ==
  IF b = 0 THEN r
  ELSE IF (r + b) * (r + b) <= n THEN ISqrtBits(n, r + b, b \div 2)
  ELSE ISqrtBits(n, r, b \div 2)
ISqrt(n) == ISqrtBits(n, 0, 2^14)

\* ------------------------------------------------------- sequence helpers
Range(s) == {s[i] : i \in 1..Len(s)}
SeqOf(x, n) == [i \in 1..n |-> x]
RECURSIVE SumLen(_)
SumLen(ss) == IF ss = <<>> THEN 0 ELSE Len(Head(ss)) + SumLen(Tail(ss))

\* ------------------------------------------------------------- file lines
\* A line of a text file, after strip():
\*   k   what the text is (which marker substrings it contains)
\*   nt  the number of whitespace-separated tokens, len(line.split())
\*   n   its numeric tokens in order (every token when the line is numeric)
\*   ni  how many leading numeric tokens are integer literals
\*   s   the quoted label of a species line
Line(k, nt, n, ni, s) == [k |-> k, nt |-> nt, n |-> n, ni |-> ni, s |-> s]
Blank == Line("blank", 0, <<>>, 0, "")
\* "Dynamical matrix file"
Banner == Line("banner", 3, <<>>, 0, "")
\* "File generated with the CellConstructor by Lorenzo Monacelli"
Comment == Line("comment", 8, <<>>, 0, "")
\* "Basis vectors"
Basis == Line("basis", 2, <<>>, 0, "")
\* "Dynamical Matrix in cartesian axes"
DynHead == Line("dynhead", 5, <<>>, 0, "")
\* "Diagonalizing the dynamical matrix"
DiagHead == Line("diag", 4, <<>>, 0, "")
\* "Dielectric Tensor:", "Effective Charges E-U: Z_{alpha}{s,beta}", "Raman tensor (A^2)"
DielectricHead == Line("dielectric", 2, <<>>, 0, "")
EffectiveHead == Line("effective", 4, <<>>, 0, "")
RamanHead == Line("raman", 3, <<>>, 0, "")
\* "*" * 75
Rule == Line("rule", 1, <<>>, 0, "")
\* "q = (  qx  qy  qz )"
QLine(q) == Line("q", 7, q, 0, "")
\* "atom #  a" and "atom #  a  pol.  p"
AtomLine(ns) == Line("atom", 1 + 2 * Len(ns), ns, Len(ns), "")
\* "  idx  'label '  mass"
TypeLine(idx, label, mass) == Line("type", 4, <<idx, mass>>, 1, label)
\* "freq (  mu) = ... [THz] = ... [cm-1]" and "( re im re im re im )": the
\* numbers of the diagonalisation summary are not represented, no reader
\* of this repository consumes them.
FreqLine(mu) == Line("freq", 9, <<mu>>, 1, "")
PolLine == Line("pol", 8, <<>>, 0, "")
\* A line of numbers: integer literals first, then decimal literals.
Nums(ints, floats) == Line("nums", Len(ints) + Len(floats), ints \o floats, Len(ints), "")

\* The substring tests of LoadFromQE.
HasCartesianAxes(l) == l.k = "dynhead"
HasDiagonalizing(l) == l.k = "diag"
HasDielectric(l) == l.k = "dielectric"
HasEffective(l) == l.k = "effective"
HasRaman(l) == l.k = "raman"
HasQ(l) == l.k = "q"
HasYnamical(l) == l.k \in {"banner", "dynhead", "diag"}
\* Every token of the line parses as a number.
AllNumeric(l) == l.k = "nums" /\ l.nt = Len(l.n)

\* len("%.8f" % x): sign, integer digits, the point and 8 decimals.
RECURSIVE Digits(_)
Digits(m) == IF m < 10 THEN 1 ELSE 1 + Digits(m \div 10)
Width8(x) == (IF x < 0 THEN 1 ELSE 0) + Digits(Abs(x) \div Fix) + 9

\* The line "%12.8f%12.8f   %12.8f%12.8f   %12.8f%12.8f" % v: the real and
\* the imaginary part of a pair are separated only by the padding of the
\* second field, so they run into one (non numeric) token when the imaginary
\* part fills its 12 columns.
RECURSIVE DynRowTokens(_)
DynRowTokens(v) ==
  IF v = <<>> THEN <<>>
  ELSE (IF Width8(v[2]) >= DynFieldWidth THEN <<>> ELSE <<v[1], v[2]>>)
       \o DynRowTokens(SubSeq(v, 3, Len(v)))
DynRowMerged(v) == Cardinality({p \in 1..(Len(v) \div 2) : Width8(v[2 * p]) >= DynFieldWidth})
DynRow(v) ==
  Line("nums", Len(v) - DynRowMerged(v), DynRowTokens(v), 0, "")

\* ---------------------------------------------------------------- values
\* An error raised by a call: the Python exception class and the place.
NoErr == [exc |-> "None", why |-> ""]
Err(exc, why) == [exc |-> exc, why |-> why]
Raise(W, exc, why) == [W EXCEPT !.err = Err(exc, why)]

\* A Python dict, as a function of its keys.
EmptyDict == [x \in {} |-> 0]
DictPut(d, k, v) == [x \in (DOMAIN d) \cup {k} |-> IF x = k THEN v ELSE d[x]]

\* np.zeros((r, c)) of complex and of real numbers; a complex number is <<re, im>>.
ZerosC(r, c) == [i \in 1..r |-> [j \in 1..c |-> <<0, 0>>]]
ZerosR(r, c) == [i \in 1..r |-> [j \in 1..c |-> 0]]
Rows(m) == Len(m)
Cols(m) == IF Len(m) = 0 THEN 0 ELSE Len(m[1])

\* The numeric token at 0-based position i, read with float() and with int().
AsFloat(l, i) == IF i < l.ni THEN l.n[i + 1] * Fix ELSE l.n[i + 1]
AsInt(l, i) == l.n[i + 1]

\* --------------------------------------------------------------- Structure
\* Structure.Structure(): the empty structure.
EmptyStructure ==
  [N_atoms |-> 0, atoms |-> <<>>, coords |-> <<>>, unit_cell |-> ZerosR(3, 3),
   has_unit_cell |-> FALSE, masses |-> EmptyDict]
\* Structure.set_masses(dict)
set_masses(st, d) == [st EXCEPT !.masses = d]
\* Structure.change_unit_cell(new_cell): the cell is replaced.
change_unit_cell(st, new_cell) == [st EXCEPT !.unit_cell = new_cell, !.has_unit_cell = TRUE]

\* -------------------------------------------------------------- LoadFromQE
\* The loader works on W, the state of the call:
\*   st       the Structure object created at the start of the call
\*   alat, dynmats, dielectric_tensor, effective_charges, raman_tensor,
\*   initialized   the fields of self
\*   q_tot, q_stars   the list objects self.q_tot and self.q_stars refer to
\*   err      the exception that ended the call, NoErr if none
\* An exception leaves in W everything assigned before it was raised.

\* dynlines[4 + i] for i in range(3): a row of the unit cell, times alat.
CellRowOk(lines, i) ==
  /\ 5 + i <= Len(lines)
  /\ AllNumeric(lines[5 + i])
  /\ lines[5 + i].nt = 3
CellRow(lines, i, alat) ==
  [k \in 1..3 |-> Scaled(AsFloat(lines[5 + i], k - 1), alat, FixDigits)]

\* Lines 183-190: the species table {index: label} and {label: mass}, read
\* from dynlines[6 + atom_index], atom_index = 1..ntyp.
RECURSIVE ReadTypes(_, _, _, _, _)
ReadTypes(lines, ntyp, atom_index, atoms_dict, masses_dict) ==
  IF atom_index > ntyp
  THEN [atoms_dict |-> atoms_dict, masses_dict |-> masses_dict, err |-> NoErr]
  ELSE IF 7 + atom_index > Len(lines)
  THEN [atoms_dict |-> atoms_dict, masses_dict |-> masses_dict,
        err |-> Err("IndexError", "species line")]
  ELSE LET l == lines[7 + atom_index] IN
    IF l.k # "type"
    THEN [atoms_dict |-> atoms_dict, masses_dict |-> masses_dict,
          err |-> Err("IndexError", "species label")]
    ELSE ReadTypes(lines, ntyp, atom_index + 1,
                   DictPut(atoms_dict, atom_index, l.s),
                   DictPut(masses_dict, l.s, l.n[2]))

\* Lines 199-204: the atoms, read from dynlines[7 + ntyp + i].
RECURSIVE ReadAtoms(_, _, _, _, _, _)
ReadAtoms(W, lines, ntyp, nat, i, atoms_dict) ==
  IF i >= nat THEN W
  ELSE IF 8 + ntyp + i > Len(lines) THEN Raise(W, "IndexError", "atom line")
  ELSE LET l == lines[8 + ntyp + i] IN
    IF ~AllNumeric(l) THEN Raise(W, "ValueError", "atom line")
    ELSE IF l.nt < 2 THEN Raise(W, "IndexError", "atom species")
    ELSE LET sp == AsFloat(l, 1) \div Fix IN
      IF sp \notin DOMAIN atoms_dict THEN Raise(W, "KeyError", "atom species")
      ELSE LET W1 == [W EXCEPT !.st.atoms = Append(@, atoms_dict[sp])] IN
        IF l.nt # 5 THEN Raise(W1, "ValueError", "atom coordinates")
        ELSE ReadAtoms(
               [W1 EXCEPT !.st.coords[i + 1] =
                  [k \in 1..3 |-> Scaled(AsFloat(l, k + 1), W.alat, FixDigits)]],
               lines, ntyp, nat, i + 1, atoms_dict)

\* Lines 192-204: the masses and the cell are stored, then the atoms are read.
ReadSpecies(W1, lines, ntyp, nat, unit_cell, ty) ==
  IF ty.err # NoErr THEN [W1 EXCEPT !.err = ty.err]
  ELSE ReadAtoms([W1 EXCEPT !.st = [set_masses(@, ty.masses_dict) EXCEPT
                                      !.unit_cell = unit_cell,
                                      !.has_unit_cell = TRUE]],
                 lines, ntyp, nat, 0, ty.atoms_dict)

\* Lines 169-190: the unit cell and the species table.  Only ibrav = 0 is
\* modelled (save_qe writes no other); the cell of another ibrav comes from
\* Methods.get_unit_cell_from_ibrav, which is not part of the model.
ReadCell(W1, lines, ntyp, nat, ibrav) ==
  IF ibrav # 0 THEN Raise(W1, "Unmodelled", "ibrav")
  ELSE IF \E i \in 0..2 : ~CellRowOk(lines, i)
  THEN Raise(W1, IF Len(lines) < 7 THEN "IndexError" ELSE "ValueError", "unit cell")
  ELSE ReadSpecies(W1, lines, ntyp, nat,
                   [i \in 1..3 |-> CellRow(lines, i - 1, W1.alat)],
                   ReadTypes(lines, ntyp, 1, EmptyDict, EmptyDict))

\* Lines 143-157: the header line "ntyp nat ibrav celldm(1..6)".
ReadHeader(W, lines) ==
  IF Len(lines) < 3 THEN Raise(W, "IndexError", "header line")
  ELSE IF lines[3].nt < 3 THEN Raise(W, "IndexError", "header tokens")
  ELSE IF ~AllNumeric(lines[3]) \/ lines[3].ni < 3
  THEN Raise(W, "ValueError", "header tokens")
  ELSE IF lines[3].nt < 9 THEN Raise(W, "IndexError", "header tokens")
  ELSE ReadCell([W EXCEPT
                   !.alat = Scaled(AsFloat(lines[3], 3), BOHR_TO_ANGSTROM, BohrDigits),
                   !.st.N_atoms = AsInt(lines[3], 1),
                   !.st.coords = ZerosR(AsInt(lines[3], 1), 3)],
                lines, AsInt(lines[3], 0), AsInt(lines[3], 1), AsInt(lines[3], 2))

\* Lines 212-216: pop lines up to and including the first one that contains
\* "cartesian axes".  rest is what remains; ok is FALSE when the list runs
\* out first (dynlines[0] of an empty list: IndexError).
SeekDyn(lines) ==
  LET hits == {k \in 1..Len(lines) : HasCartesianAxes(lines[k])} IN
  IF hits = {} THEN [ok |-> FALSE, rest |-> <<>>, popped |-> Len(lines)]
  ELSE LET first == CHOOSE k \in hits : \A k2 \in hits : k <= k2
       IN [ok |-> TRUE, rest |-> SubSeq(lines, first + 1, Len(lines)), popped |-> first]

\* A Python index into an axis of length n: negative indices count from the end.
PyIndex(i, n) == IF i < 0 THEN i + n ELSE i
PyIndexOk(i, n) == PyIndex(i, n) >= 0 /\ PyIndex(i, n) < n

\* Lines 219-234: the locals of the block loop.
BlockLocals(W) ==
  [current_dyn |-> ZerosC(3 * W.st.N_atoms, 3 * W.st.N_atoms),
   q_star |-> <<>>, atm_i |-> 0, atm_j |-> 0, coordline |-> 0,
   dielectric_read |-> 0, pol_read |-> 0, mode |-> "dyn", index |-> -1,
   done |-> FALSE]

\* Lines 293-328: a line that matched no marker, in the mode the markers set.
\* The result is <<W, ps>>.
ReadNumbers(W, ps, l) ==
  IF l.nt = 0 THEN <<W, ps>>
  ELSE IF ps.mode = "dielectric" THEN
    IF l.nt # 3 THEN <<W, ps>>
    ELSE IF ~AllNumeric(l) THEN <<Raise(W, "ValueError", "dielectric row"), ps>>
    ELSE IF ~PyIndexOk(ps.dielectric_read, 3)
    THEN <<Raise(W, "IndexError", "dielectric row"), ps>>
    ELSE <<[W EXCEPT !.dielectric_tensor[1][PyIndex(ps.dielectric_read, 3) + 1] =
              [k \in 1..3 |-> AsFloat(l, k - 1)]],
           [ps EXCEPT !.dielectric_read = @ + 1]>>
  ELSE IF ps.mode = "effective" THEN
    IF l.k = "atom" THEN
      IF l.nt < 3 THEN <<Raise(W, "IndexError", "atom marker"), ps>>
      ELSE <<W, [ps EXCEPT !.atm_i = AsInt(l, 0) - 1, !.dielectric_read = 0]>>
    ELSE IF l.nt # 3 THEN <<W, ps>>
    ELSE IF ~AllNumeric(l) THEN <<Raise(W, "ValueError", "effective charge row"), ps>>
    ELSE IF ~PyIndexOk(ps.atm_i, W.st.N_atoms) \/ ~PyIndexOk(ps.dielectric_read, 3)
    THEN <<Raise(W, "IndexError", "effective charge row"), ps>>
    ELSE <<[W EXCEPT !.effective_charges[1][PyIndex(ps.atm_i, W.st.N_atoms) + 1]
                                        [PyIndex(ps.dielectric_read, 3) + 1] =
              [k \in 1..3 |-> AsFloat(l, k - 1)]],
           [ps EXCEPT !.dielectric_read = @ + 1]>>
  ELSE IF ps.mode = "raman" THEN
    IF l.k = "atom" THEN
      IF l.nt < 5 THEN <<Raise(W, "IndexError", "atom marker"), ps>>
      ELSE <<W, [ps EXCEPT !.atm_i = AsInt(l, 0) - 1, !.pol_read = AsInt(l, 1) - 1,
                           !.dielectric_read = 0]>>
    ELSE IF l.nt # 3 THEN <<W, ps>>
    ELSE IF ~AllNumeric(l) THEN <<Raise(W, "ValueError", "raman row"), ps>>
    ELSE LET col == 3 * ps.atm_i + ps.pol_read
             n3  == 3 * W.st.N_atoms
      IN IF ~PyIndexOk(col, n3) \/ ~PyIndexOk(ps.dielectric_read, 3)
         THEN <<Raise(W, "IndexError", "raman row"), ps>>
         ELSE <<[W EXCEPT !.raman_tensor[1][PyIndex(ps.dielectric_read, 3) + 1] =
                   [b \in 1..3 |-> [@[b] EXCEPT ![PyIndex(col, n3) + 1] = AsFloat(l, b - 1)]]],
                [ps EXCEPT !.dielectric_read = @ + 1]>>
  ELSE
    IF l.nt = 2 THEN
      IF ~AllNumeric(l) \/ l.ni < 2 THEN <<Raise(W, "ValueError", "atom pair"), ps>>
      ELSE <<W, [ps EXCEPT !.atm_i = AsInt(l, 0) - 1, !.atm_j = AsInt(l, 1) - 1,
                           !.coordline = 0]>>
    ELSE IF l.nt = 6 THEN
      IF ~AllNumeric(l) THEN <<Raise(W, "ValueError", "matrix row"), ps>>
      ELSE LET n3 == Rows(ps.current_dyn)
               r  == 3 * ps.atm_i + ps.coordline
        IN IF ~PyIndexOk(r, n3) \/ \E k \in 0..2 : ~PyIndexOk(3 * ps.atm_j + k, n3)
           THEN <<Raise(W, "IndexError", "matrix row"), ps>>
           ELSE <<W, [ps EXCEPT
                   !.current_dyn[PyIndex(r, n3) + 1] =
                      [c \in 1..n3 |->
                         IF \E k \in 0..2 : c = PyIndex(3 * ps.atm_j + k, n3) + 1
                         THEN LET k == CHOOSE k \in 0..2 : c = PyIndex(3 * ps.atm_j + k, n3) + 1
                              IN <<AsFloat(l, 2 * k), AsFloat(l, 2 * k + 1)>>
                         ELSE @[c]],
                   !.coordline = @ + 1]>>
    ELSE <<W, ps>>

\* Lines 236-289: one iteration of the block loop on dynlines[index].
ReadLine(W, ps, l) ==
  IF HasDiagonalizing(l)
  THEN <<[W EXCEPT !.dynmats = Append(@, ps.current_dyn)], [ps EXCEPT !.done = TRUE]>>
  ELSE IF HasDielectric(l)
  THEN <<[W EXCEPT !.dielectric_tensor = <<ZerosR(3, 3)>>],
         [ps EXCEPT !.mode = "dielectric", !.dielectric_read = 0]>>
  ELSE IF HasEffective(l)
  THEN <<[W EXCEPT !.effective_charges = <<[a \in 1..W.st.N_atoms |-> ZerosR(3, 3)]>>],
         [ps EXCEPT !.mode = "effective"]>>
  ELSE IF HasRaman(l)
  THEN <<[W EXCEPT !.raman_tensor = <<[a \in 1..3 |-> ZerosR(3, 3 * W.st.N_atoms)]>>],
         [ps EXCEPT !.mode = "raman"]>>
  ELSE IF HasQ(l)
  THEN <<[W EXCEPT !.q_tot = Append(@, l.n)],
         [ps EXCEPT !.q_star = Append(@, l.n), !.mode = "dyn"]>>
  ELSE IF HasYnamical(l)
  THEN <<[W EXCEPT !.dynmats = Append(@, ps.current_dyn)], [ps EXCEPT !.mode = "dyn"]>>
  ELSE ReadNumbers(W, ps, l)

\* Lines 236-238: the iterations of the block loop on dynlines[lo..hi]
\* (counted from 1), as long as reading_dyn holds and nothing was raised.
\* The range is split in two so that the evaluation stays shallow.
RECURSIVE ReadRange(_, _, _, _)
ReadRange(Wps, lines, lo, hi) ==
  IF lo > hi \/ Wps[1].err # NoErr \/ Wps[2].done THEN Wps
  ELSE IF lo = hi
  THEN ReadLine(Wps[1], [Wps[2] EXCEPT !.index = lo - 1], lines[lo])
  ELSE ReadRange(ReadRange(Wps, lines, lo, (lo + hi) \div 2),
                 lines, (lo + hi) \div 2 + 1, hi)

\* Lines 236-328: the end of the block loop.  Running past the last line is
\* an IndexError of dynlines[index].
EndBlocks(r, n) ==
  IF r[1].err # NoErr \/ r[2].done THEN r
  ELSE <<Raise(r[1], "IndexError", "no Diagonalizing line"), [r[2] EXCEPT !.index = n]>>
ReadBlocks(W, ps, lines) ==
  EndBlocks(ReadRange(<<W, ps>>, lines, 1, Len(lines)), Len(lines))

\* Line 332: the star of the file is appended to self.q_stars.
EndFile_NoStar(rb) == rb[1]
EndFile(rb) ==
  IF rb[1].err # NoErr THEN rb[1]
  ELSE [rb[1] EXCEPT !.q_stars = Append(@, rb[2].q_star)]

\* Lines 206-332: the blocks of a file, W1 being the state after its header.
LoadBlocks(W1, sk) ==
  IF W1.err # NoErr THEN W1
  ELSE IF ~sk.ok THEN Raise(W1, "IndexError", "no cartesian axes line")
  ELSE EndFile(ReadBlocks(W1, BlockLocals(W1), sk.rest))

\* Lines 138-332: the body of the loop over iq for one file.
LoadFile(W, lines, iq) ==
  LoadBlocks(IF iq = 0 THEN ReadHeader(W, lines) ELSE W, SeekDyn(lines))

\* The name of a file: <<prefix, k>> is prefix followed by the number k,
\* <<prefix, 0>> the prefix alone.  Lines 130-133.
FilePath_Numbered(fildyn_prefix, iq, full_name) == <<fildyn_prefix, iq + 1>>
FilePath(fildyn_prefix, iq, full_name) ==
  IF full_name THEN <<fildyn_prefix, 0>> ELSE <<fildyn_prefix, iq + 1>>

\* Line 136: the file of this iq does not exist.
MissingFile_IOError(W) == Raise(W, "IOError", "file does not exist")
MissingFile(W) == Raise(W, "ValueError", "file does not exist")

\* Lines 128-335: the loop over the files, from iq on.  fs is the file system,
\* a function from the names of the existing files to their lines.
RECURSIVE LoadLoop(_, _, _, _, _, _)
LoadLoop(W, fs, fildyn_prefix, nqirr, full_name, iq) ==
  IF W.err # NoErr THEN W
  ELSE IF iq >= nqirr THEN [W EXCEPT !.initialized = TRUE]
  ELSE IF FilePath(fildyn_prefix, iq, full_name) \notin DOMAIN fs THEN MissingFile(W)
  ELSE LoadLoop(LoadFile(W, fs[FilePath(fildyn_prefix, iq, full_name)], iq),
                fs, fildyn_prefix, nqirr, full_name, iq + 1)

\* Lines 117-122: the checks of the arguments.
ArgumentError_NqirrOnly(nqirr, full_name) ==
  IF nqirr <= 0 THEN Err("ValueError", "nqirr") ELSE NoErr
ArgumentError(nqirr, full_name) ==
  IF nqirr <= 0 THEN Err("ValueError", "nqirr")
  ELSE IF full_name /\ nqirr > 1 THEN Err("ValueError", "full_name")
  ELSE NoErr

\* Lines 117-335.  newst tells that self.structure was bound to a new object.
LoadFromQE(W, fs, fildyn_prefix, nqirr, full_name) ==
  IF ArgumentError(nqirr, full_name) # NoErr
  THEN [W EXCEPT !.err = ArgumentError(nqirr, full_name)]
  ELSE LoadLoop([W EXCEPT !.st = EmptyStructure, !.newst = TRUE],
                fs, fildyn_prefix, nqirr, full_name, 0)

\* ------------------------------------------------------ the files on disk
\* The dynamical matrix files the caller starts with, in the format of
\* Quantum ESPRESSO: prefix "a" holds one atom and two irreducible q points
\* (a1 at Gamma with the dielectric, effective charge and Raman blocks, a2 a
\* star of two q points), prefix "b" holds two atoms of two species at Gamma.
\* Files written by save_qe go to prefix "s".
LoadPrefixes == {"a", "b", "s"}
SavePrefixes == {"s"}
\* 0.01 in fixed point.
Cent == Fix \div 100
RealRow(a, b, c) == DynRow(<<a * Cent, 0, b * Cent, 0, c * Cent, 0>>)
CplxRow(v) == DynRow([k \in 1..6 |-> v[k] * Cent])
PairLine(i, j) == Nums(<<i, j>>, <<>>)
Row3(a, b, c) == Nums(<<>>, <<a * Cent, b * Cent, c * Cent>>)
QEHeader(ntyp, nat, celldm1) ==
  <<Banner, Comment, Nums(<<ntyp, nat, 0>>, <<celldm1 * Cent, 0, 0, 0, 0, 0>>),
    Basis, Row3(100, 0, 0), Row3(0, 100, 0), Row3(0, 0, 100)>>
QEBlockHead(q) ==
  <<Blank, DynHead, Blank, QLine([k \in 1..3 |-> q[k] * Cent]), Blank>>
RECURSIVE QEModes(_, _)
QEModes(nmodes, nat) ==
  IF nmodes = 0 THEN <<>>
  ELSE QEModes(nmodes - 1, nat) \o <<FreqLine(nmodes)>> \o SeqOf(PolLine, nat)
QETail(q, nat) ==
  <<Blank, DiagHead, Blank, QLine([k \in 1..3 |-> q[k] * Cent]), Blank, Rule>>
  \o QEModes(3 * nat, nat) \o <<Rule>>

FileA1 ==
  QEHeader(1, 1, 200)
  \o <<TypeLine(1, "H", 4), Nums(<<1, 1>>, <<25 * Cent, 50 * Cent, 0>>)>>
  \o QEBlockHead(<<0, 0, 0>>)
  \o <<PairLine(1, 1), RealRow(16, 0, 0), RealRow(0, 4, 0), RealRow(0, 0, -4)>>
  \o <<Blank, DielectricHead, Blank, Row3(300, 0, 0), Row3(0, 300, 0), Row3(0, 0, 200)>>
  \o <<Blank, EffectiveHead, Blank, AtomLine(<<1>>),
       Row3(100, 0, 0), Row3(0, 100, 0), Row3(0, 0, 50)>>
  \o <<Blank, RamanHead, Blank, AtomLine(<<1, 1>>),
       Row3(7, 0, 0), Row3(0, 8, 0), Row3(0, 0, 9)>>
  \o QETail(<<0, 0, 0>>, 1)

FileA2 ==
  QEHeader(1, 1, 200)
  \o <<TypeLine(1, "H", 4), Nums(<<1, 1>>, <<25 * Cent, 50 * Cent, 0>>)>>
  \o QEBlockHead(<<50, 0, 0>>)
  \o <<PairLine(1, 1), CplxRow(<<34, 0, 0, 30, 0, 0>>), CplxRow(<<0, -30, 34, 0, 0, 0>>),
       CplxRow(<<0, 0, 0, 0, 36, 0>>)>>
  \o QEBlockHead(<<-50, 0, 0>>)
  \o <<PairLine(1, 1), CplxRow(<<34, 0, 0, -30, 0, 0>>), CplxRow(<<0, 30, 34, 0, 0, 0>>),
       CplxRow(<<0, 0, 0, 0, 36, 0>>)>>
  \o QETail(<<50, 0, 0>>, 1)

FileB1 ==
  QEHeader(2, 2, 300)
  \o <<TypeLine(1, "H", 4), TypeLine(2, "O", 16),
       Nums(<<1, 1>>, <<0, 0, 0>>), Nums(<<2, 2>>, <<50 * Cent, 50 * Cent, 50 * Cent>>)>>
  \o QEBlockHead(<<0, 0, 0>>)
  \o <<PairLine(1, 1), RealRow(16, 0, 0), RealRow(0, 4, 0), RealRow(0, 0, -36),
       PairLine(1, 2), RealRow(0, 0, 0), RealRow(0, 0, 0), RealRow(0, 0, 0),
       PairLine(2, 1), RealRow(0, 0, 0), RealRow(0, 0, 0), RealRow(0, 0, 0),
       PairLine(2, 2), RealRow(16, 0, 0), RealRow(0, 64, 0), RealRow(0, 0, 0)>>
  \o QETail(<<0, 0, 0>>, 2)

\* Prefix "c": one file, the two species of prefix "b" on exchanged atoms (O
\* first, then H), and a star of two q points.  The block of the first q point gives every entry of its matrix,
\* entry (R, C) being CEntry(1, R, C); the block of the second gives the
\* pairs (1, 1) and (2, 2) only.
CEntry(b, R, C) ==
  <<10 * (IF R < C THEN R ELSE C) + (IF R < C THEN C ELSE R) + 100 * (b - 1),
    (IF b = 1 THEN 1 ELSE -1) * (C - R)>>
CPair(b, i, j) ==
  <<PairLine(i, j)>>
  \o [x \in 1..3 |-> CplxRow(CEntry(b, 3 * (i - 1) + x, 3 * (j - 1) + 1)
                             \o CEntry(b, 3 * (i - 1) + x, 3 * (j - 1) + 2)
                             \o CEntry(b, 3 * (i - 1) + x, 3 * (j - 1) + 3))]
FileC1 ==
  QEHeader(2, 2, 300)
  \o <<TypeLine(1, "H", 4), TypeLine(2, "O", 16),
       Nums(<<1, 2>>, <<0, 0, 0>>), Nums(<<2, 1>>, <<50 * Cent, 50 * Cent, 50 * Cent>>)>>
  \o QEBlockHead(<<50, 0, 0>>)
  \o CPair(1, 1, 1) \o CPair(1, 1, 2) \o CPair(1, 2, 1) \o CPair(1, 2, 2)
  \o QEBlockHead(<<-50, 0, 0>>)
  \o CPair(2, 1, 1) \o CPair(2, 2, 2)
  \o QETail(<<50, 0, 0>>, 2)

InitialFiles ==
  [f \in {<<"a", 1>>, <<"a", 2>>, <<"b", 1>>, <<"c", 1>>} |->
     IF f = <<"a", 1>> THEN FileA1 ELSE IF f = <<"a", 2>> THEN FileA2
     ELSE IF f = <<"b", 1>> THEN FileB1 ELSE FileC1]

\* ---------------------------------------------------------------- DyagDinQ
\* In what follows v is an object with its references followed (ViewOf).
\* Lines 364-372: the exceptions of DyagDinQ(iq) before the diagonalisation.
DyagError(v, iq) ==
  IF v.structure = None THEN Err("AttributeError", "structure is None")
  ELSE IF \E t \in Range(v.structure[1].atoms) : t \notin DOMAIN v.structure[1].masses
  THEN Err("KeyError", "mass")
  ELSE IF ~PyIndexOk(iq, Len(v.dynmats)) THEN Err("IndexError", "iq")
  ELSE IF Rows(v.dynmats[PyIndex(iq, Len(v.dynmats)) + 1]) # 3 * v.structure[1].N_atoms
  THEN Err("ValueError", "shapes")
  ELSE NoErr

\* Lines 364-372 and 376 for a matrix m whose entries off the diagonal are
\* zero: entry k of the diagonal of real_dyn, its real part.  The blocks of
\* the atoms the list atoms does not hold stay zero.
RoundDiv(x, d) == Sign(x) * ((2 * Abs(x) + d) \div (2 * d))
MassWeighted(st, m, k) ==
  IF (k - 1) \div 3 < Len(st.atoms)
  THEN RoundDiv(m[k][k][1], st.masses[st.atoms[(k - 1) \div 3 + 1]])
  ELSE 0
\* Line 369: np.sqrt(m1 * m2) for the atoms of the coordinates j and k.
CoordMass(st, k) == st.masses[st.atoms[(k - 1) \div 3 + 1]]
MassRoot(st, j, k) == ISqrt(CoordMass(st, j) * CoordMass(st, k))
\* Lines 369-372: entry (j, k) of real_dyn, a complex number.
Weighted(st, m, j, k) ==
  <<RoundDiv(m[j][k][1], MassRoot(st, j, k)), RoundDiv(m[j][k][2], MassRoot(st, j, k))>>

\* Line 374 is modelled for the matrices in which the only entries off the
\* diagonal couple the coordinates x and y of one atom, in one of two forms
\* of the 2x2 block B of real_dyn at the coordinates x, x+1:
\*   Hermitian   B = [[a, i b], [-i b, a]],  b # 0
\*   symmetric   B = [[p, i q], [i q, -p]],  0 < |q| < p, p+q and p-q squares
\* PairX(k) is the coordinate x of the atom of k.
PairX(k) == k - ((k - 1) % 3)
IsSquare(n) == n >= 0 /\ ISqrt(n) * ISqrt(n) = n
HermitianPairAt(A, B, C, D) ==
  /\ A[2] = 0 /\ D = A
  /\ B[1] = 0 /\ B[2] # 0 /\ C = <<0, -B[2]>>
SymmetricPairAt(A, B, C, D) ==
  /\ A[2] = 0 /\ A[1] > 0 /\ D = <<-A[1], 0>>
  /\ B[1] = 0 /\ B[2] # 0 /\ C = B /\ Abs(B[2]) < A[1]
  /\ IsSquare(A[1] + B[2]) /\ IsSquare(A[1] - B[2])
HermitianPair(st, m, x) ==
  HermitianPairAt(Weighted(st, m, x, x), Weighted(st, m, x, x + 1),
                  Weighted(st, m, x + 1, x), Weighted(st, m, x + 1, x + 1))
SymmetricPair(st, m, x) ==
  SymmetricPairAt(Weighted(st, m, x, x), Weighted(st, m, x, x + 1),
                  Weighted(st, m, x + 1, x), Weighted(st, m, x + 1, x + 1))
\* The coordinate k is one of a coupled pair.
Paired(st, m, k) ==
  /\ (k - 1) % 3 < 2
  /\ (k - 1) \div 3 < Len(st.atoms)
  /\ m[PairX(k)][PairX(k) + 1] # <<0, 0>> \/ m[PairX(k) + 1][PairX(k)] # <<0, 0>>
EigModelled(st, m) ==
  /\ Len(st.atoms) = st.N_atoms
  /\ \A j, k \in 1..Rows(m) :
       (j # k /\ m[j][k] # <<0, 0>>)
         => /\ PairX(j) = PairX(k) /\ (j - 1) % 3 < 2 /\ (k - 1) % 3 < 2
            /\ HermitianPair(st, m, PairX(j)) \/ SymmetricPair(st, m, PairX(j))

\* The eigenvalue in column k of the result of eig.  A Hermitian pair has
\* the eigenvalues a + b (column x) and a - b (column x+1), a symmetric
\* pair r and -r with r = sqrt(p*p - q*q) = sqrt(p + q) * sqrt(p - q); an
\* uncoupled coordinate has its diagonal entry.
EigVal(st, m, k) ==
  IF ~Paired(st, m, k) THEN MassWeighted(st, m, k)
  ELSE IF HermitianPair(st, m, PairX(k))
  THEN Weighted(st, m, PairX(k), PairX(k))[1]
       + (IF k = PairX(k) THEN 1 ELSE -1) * Weighted(st, m, PairX(k), PairX(k) + 1)[2]
  ELSE (IF k = PairX(k) THEN 1 ELSE -1)
       * ISqrt(Weighted(st, m, PairX(k), PairX(k))[1] + Weighted(st, m, PairX(k), PairX(k) + 1)[2])
       * ISqrt(Weighted(st, m, PairX(k), PairX(k))[1] - Weighted(st, m, PairX(k), PairX(k) + 1)[2])
\* Line 374, np.linalg.eig of such a matrix: the eigenvalues, and the
\* columns of pol_vects, each named by its place k in the result of eig.
Eig(st, m) ==
  [eigvals |-> [k \in 1..(3 * st.N_atoms) |-> EigVal(st, m, k)],
   pol_vects |-> [k \in 1..(3 * st.N_atoms) |-> k]]
\* Lines 379-381: a frequency, in units of 1e-4, of an eigenvalue f2.
Frequency(f2) == IF f2 > 0 THEN ISqrt(f2) ELSE IF f2 < 0 THEN -ISqrt(-f2) ELSE 0
\* Line 384, np.argsort: a permutation that sorts, any one where frequencies
\* are equal.
SortingMasks(frequencies) ==
  {mask \in Permutations(1..Len(frequencies)) :
     \A k \in 1..(Len(frequencies) - 1) : frequencies[mask[k]] <= frequencies[mask[k + 1]]}
\* Lines 385-386.
SortFrequencies(frequencies, sorting_mask) ==
  [k \in 1..Len(frequencies) |-> frequencies[sorting_mask[k]]]
KeepColumns(pol_vects, sorting_mask) == pol_vects
SortColumns(pol_vects, sorting_mask) ==
  [k \in 1..Len(pol_vects) |-> pol_vects[sorting_mask[k]]]
\* Lines 376-388: what DyagDinQ returns for the result E of eig.
Frequencies(E) == [k \in 1..Len(E.eigvals) |-> Frequency(E.eigvals[k])]
DyagSorted(E, frequencies) ==
  {[frequencies |-> SortFrequencies(frequencies, mask),
    pol_vects |-> SortColumns(E.pol_vects, mask)] : mask \in SortingMasks(frequencies)}
DyagEig(E) == DyagSorted(E, Frequencies(E))
\* Lines 364-388: the results DyagDinQ(iq) can return when it raises nothing.
DyagDinQ(v, iq) ==
  DyagEig(Eig(v.structure[1], v.dynmats[PyIndex(iq, Len(v.dynmats)) + 1]))

\* ------------------------------------------------------ derived quantities
\* The shape of an array an operation returns; its numbers are not
\* represented.
Array(shape) == [shape |-> shape]
\* Lines 472-477, 492-493: the accesses self.structure.atoms[i], i < N_atoms.
AtomsError(st) ==
  IF Len(st.atoms) < st.N_atoms THEN Err("IndexError", "atoms") ELSE NoErr
FirstErr(e1, e2) == IF e1 # NoErr THEN e1 ELSE e2

\* Lines 465-500: the exception of GetUpsilonMatrix(T).
UpsilonError_NoSupercellCheck(v, T) ==
  IF T < 0 THEN Err("ValueError", "T")
  ELSE IF DyagError(v, 0) # NoErr THEN DyagError(v, 0)
  ELSE AtomsError(v.structure[1])
UpsilonError(v, T) ==
  IF T < 0 THEN Err("ValueError", "T")
  ELSE IF v.nqirr # 1 THEN Err("ValueError", "supercell")
  ELSE IF DyagError(v, 0) # NoErr THEN DyagError(v, 0)
  ELSE AtomsError(v.structure[1])
\* Lines 539-565: the exception of GetProbability for a displacement of
\* disp.ndim dimensions and disp.size numbers, and an upsilon_matrix that is
\* None or Some(n) for an n x n matrix.
ProbabilityError(v, disp, T, upsilon_matrix) ==
  IF v.structure = None THEN Err("AttributeError", "structure is None")
  ELSE IF disp.ndim = 2 /\ disp.size # 3 * v.structure[1].N_atoms
  THEN Err("ValueError", "reshape")
  ELSE IF upsilon_matrix = None /\ UpsilonError(v, T) # NoErr THEN UpsilonError(v, T)
  ELSE IF disp.size # (IF upsilon_matrix = None THEN 3 * v.structure[1].N_atoms
                       ELSE upsilon_matrix[1])
  THEN Err("ValueError", "einsum")
  ELSE NoErr
\* Structure.get_displacement(reference): one row per atom.
DisplacementError(st, reference) ==
  IF reference = None THEN Err("AttributeError", "structure is None")
  ELSE IF st.N_atoms # reference[1].N_atoms THEN Err("ValueError", "shapes")
  ELSE NoErr
get_displacement(st) == [ndim |-> 2, size |-> 3 * st.N_atoms]
\* Lines 601-608: the exception of GetRatioProbability(structure, T, dyn0, T0).
RatioError(v, st, T, dyn0, T0) ==
  FirstErr(DisplacementError(st, v.structure),
    FirstErr(DisplacementError(st, dyn0.structure),
      FirstErr(ProbabilityError(v, get_displacement(st), T, None),
               ProbabilityError(dyn0, get_displacement(st), T0, None))))
\* Lines 638-724: the exception of GetStrainMatrix(new_cell, T) for T <= 0.
StrainError(v, T) ==
  IF T < 0 THEN Err("ValueError", "T")
  ELSE IF DyagError(v, 0) # NoErr THEN DyagError(v, 0)
  ELSE AtomsError(v.structure[1])
\* Lines 933-961: the exception of GetRamanResponce.  "raman_tensor == None"
\* on an array is False, or the array of the comparisons of its entries, as
\* the numpy at hand has it; the truth value of such an array is an error.
RamanError(v, elementwise) ==
  IF v.raman_tensor = None THEN Err("ValueError", "raman tensor")
  ELSE IF elementwise THEN Err("ValueError", "truth value of an array")
  ELSE IF DyagError(v, 0) # NoErr THEN DyagError(v, 0)
  ELSE IF AtomsError(v.structure[1]) # NoErr THEN AtomsError(v.structure[1])
  ELSE IF Len(v.raman_tensor[1][1][1]) # 3 * v.structure[1].N_atoms
  THEN Err("ValueError", "einsum")
  ELSE NoErr

\* Lines 996-1050: the exception of ExtractRandomStructures(size, T,
\* isolate_atoms) for size >= 0.  Line 1047 writes row j of the coordinates
\* for each j below len(isolate_atoms).
Max(S) == CHOOSE x \in S : \A y \in S : y <= x
ExtractError(v, size, isolate_atoms) ==
  IF v.nqirr # 1 THEN Err("ValueError", "supercell")
  ELSE IF isolate_atoms # <<>> /\ v.structure = None
  THEN Err("AttributeError", "structure is None")
  ELSE IF isolate_atoms # <<>> /\ Max(Range(isolate_atoms)) >= v.structure[1].N_atoms
  THEN Err("ValueError", "isolate_atoms")
  ELSE IF DyagError(v, 0) # NoErr THEN DyagError(v, 0)
  ELSE IF AtomsError(v.structure[1]) # NoErr THEN AtomsError(v.structure[1])
  ELSE IF size > 0 /\ Len(isolate_atoms) > Len(v.structure[1].coords)
  THEN Err("IndexError", "coords")
  ELSE NoErr
\* Lines 1037-1040: the coordinates of the copy, every one moved by d.
Displaced(coords, d) ==
  [k \in 1..Len(coords) |-> [x \in 1..3 |-> coords[k][x] + d]]
\* Lines 1043-1047: N_atoms becomes the length of the list and row j of the
\* coordinates the displaced row of atom isolate_atoms[j]; the other rows
\* and the list atoms stay.
Isolate(st, new_coords, isolate_atoms) ==
  IF isolate_atoms = <<>> THEN [st EXCEPT !.coords = new_coords]
  ELSE [st EXCEPT !.N_atoms = Len(isolate_atoms),
                  !.coords = [k \in 1..Len(new_coords) |->
                                IF k <= Len(isolate_atoms)
                                THEN new_coords[PyIndex(isolate_atoms[k], Len(new_coords)) + 1]
                                ELSE new_coords[k]]]
\* Lines 1032-1050: the list ExtractRandomStructures returns, for random
\* numbers that move every coordinate by d.  With three modes no mode is
\* left after line 1008 and the displacements of line 1029 are zero.
ExtractRandomStructures(st, size, isolate_atoms, d) ==
  SeqOf(Isolate(st, Displaced(st.coords, d), isolate_atoms), size)
\* Lines 1087-1100: the exception of get_energy_forces(structure).
EnergyForcesError(v, st) ==
  IF DisplacementError(st, v.structure) # NoErr THEN DisplacementError(st, v.structure)
  ELSE IF v.dynmats = <<>> THEN Err("IndexError", "dynmats")
  ELSE IF Cols(v.dynmats[1]) # 3 * st.N_atoms THEN Err("ValueError", "shapes")
  ELSE NoErr
\* Lines 425-437: CheckCompatibility(other) for another Phonons; the
\* attributes of a structure that is None are an AttributeError.
CompatibilityError(v, other) ==
  IF v.structure = None \/ other.structure = None
  THEN Err("AttributeError", "structure is None")
  ELSE NoErr
CheckCompatibility(v, other) ==
  v.structure[1].N_atoms = other.structure[1].N_atoms /\ v.nqirr = other.nqirr

\* ---------------------------------------------------- ForcePositiveDefinite
\* Entry (dj, dk) of the product e e^T (no conjugate: "ji, ki" at line 902)
\* of a column e of pol_vects with itself, in fixed point, for the two
\* columns of a coupled pair.  eig returns the eigenvectors geev computes:
\* of norm 1 and with the component of largest modulus real, the first of
\* them where the moduli are equal.
\* Hermitian pair: e = (1, s i) / sqrt(2), s = -1 for a + b and 1 for a - b.
HermitianOuter(s, dj, dk) ==
  IF dj = 0 /\ dk = 0 THEN <<Fix \div 2, 0>>
  ELSE IF dj = 1 /\ dk = 1 THEN <<-(Fix \div 2), 0>>
  ELSE <<0, s * (Fix \div 2)>>
\* Symmetric pair: e = (q, i (p - r)) / sqrt(2 p (p - r)) for r (s = 1) and
\* e = (-i q, p + r) / sqrt(2 p (p + r)) for -r (s = -1), so that e e^T is
\* [[r + s p, i s q], [i s q, r - s p]] / (2 p).
SymmetricOuter(p, q, r, s, dj, dk) ==
  IF dj = 0 /\ dk = 0 THEN <<Ratio(r + s * p, 2 * p), 0>>
  ELSE IF dj = 1 /\ dk = 1 THEN <<Ratio(r - s * p, 2 * p), 0>>
  ELSE <<0, Ratio(s * q, 2 * p)>>
\* Entry (j, k) of e e^T for the column c of the result of eig.
Outer(st, m, c, j, k) ==
  IF ~Paired(st, m, c) THEN (IF j = c /\ k = c THEN <<Fix, 0>> ELSE <<0, 0>>)
  ELSE IF j \notin {PairX(c), PairX(c) + 1} \/ k \notin {PairX(c), PairX(c) + 1}
  THEN <<0, 0>>
  ELSE IF HermitianPair(st, m, PairX(c))
  THEN HermitianOuter(IF c = PairX(c) THEN -1 ELSE 1, j - PairX(c), k - PairX(c))
  ELSE SymmetricOuter(Weighted(st, m, PairX(c), PairX(c))[1],
                      Weighted(st, m, PairX(c), PairX(c) + 1)[2],
                      Abs(EigVal(st, m, c)),
                      IF c = PairX(c) THEN 1 ELSE -1, j - PairX(c), k - PairX(c))
\* The product of a real x >= 0 and a complex z, both in fixed point.
Times(x, z) ==
  <<Sign(z[1]) * Scaled(x, Abs(z[1]), FixDigits), Sign(z[2]) * Scaled(x, Abs(z[2]), FixDigits)>>
\* Line 902, np.einsum("i, ji, ki", w**2, pols, pols): the sum over the
\* modes from c on of w**2 e e^T at (j, k).  The mode of column c has the
\* frequency of its eigenvalue (lines 385-386 sort both with one mask), and
\* w**2, the square of a root, is the modulus of the eigenvalue to the
\* digits kept.
RECURSIVE ModeSum(_, _, _, _, _)
ModeSum(st, m, c, j, k) ==
  IF c > Rows(m) THEN <<0, 0>>
  ELSE LET t == Times(Abs(EigVal(st, m, c)), Outer(st, m, c, j, k))
           u == ModeSum(st, m, c + 1, j, k)
       IN <<t[1] + u[1], t[2] + u[2]>>
\* Line 902: the matrix that replaces m, the sum times np.sqrt(_m1_ * _m2_).
Forced(st, m) ==
  [j \in 1..Rows(m) |-> [k \in 1..Rows(m) |->
     <<ModeSum(st, m, 1, j, k)[1] * MassRoot(st, j, k),
       ModeSum(st, m, 1, j, k)[2] * MassRoot(st, j, k)>>]]
\* Lines 891-893: the exception of the mass array.
ForceError(v) ==
  IF v.structure = None THEN Err("AttributeError", "structure is None")
  ELSE IF AtomsError(v.structure[1]) # NoErr THEN AtomsError(v.structure[1])
  ELSE IF \E t \in Range(v.structure[1].atoms) : t \notin DOMAIN v.structure[1].masses
  THEN Err("KeyError", "mass")
  ELSE NoErr
\* Lines 898-903: the loop over the matrices from iq on; an exception of
\* DyagDinQ leaves the matrices before iq replaced.  The result is
\* [dynmats, err].
RECURSIVE ForceLoop(_, _, _)
ForceLoop(v, dynmats, iq) ==
  IF iq >= Len(dynmats) THEN [dynmats |-> dynmats, err |-> NoErr]
  ELSE IF DyagError(v, iq) # NoErr THEN [dynmats |-> dynmats, err |-> DyagError(v, iq)]
  ELSE ForceLoop(v, [dynmats EXCEPT ![iq + 1] = Forced(v.structure[1], @)], iq + 1)
\* Lines 872-903.
ForcePositiveDefinite(v) ==
  IF ForceError(v) # NoErr THEN [dynmats |-> v.dynmats, err |-> ForceError(v)]
  ELSE ForceLoop(v, v.dynmats, 0)

\* ------------------------------------------------------------------ save_qe
\* Lines 776-781: the species of the atoms i..n in the order they first occur.
RECURSIVE TypesFrom(_, _, _, _)
TypesFrom(atoms, i, n, types) ==
  IF i > n THEN types
  ELSE TypesFrom(atoms, i + 1, n,
                 IF atoms[i] \in Range(types) THEN types ELSE Append(types, atoms[i]))
\* Lines 784-786: itau[label].
Itau(types, label) == CHOOSE k \in 1..Len(types) : types[k] = label

\* The writes of a file are a sequence of attempts [line, ok]: the first one
\* that is not ok raises, and the file holds the lines before it.
Attempt(line, ok) == [line |-> line, ok |-> ok]
Leading(att) ==
  IF \A k \in 1..Len(att) : att[k].ok THEN Len(att)
  ELSE (CHOOSE k \in 1..Len(att) : ~att[k].ok /\ \A m \in 1..(k - 1) : att[m].ok) - 1
\* S = [lines, err] is the file so far and the exception that ended the call.
WriteAll(S, att, e) ==
  IF S.err # NoErr THEN S
  ELSE [lines |-> S.lines \o [k \in 1..Leading(att) |-> att[k].line],
        err |-> IF Leading(att) < Len(att) THEN e ELSE NoErr]

\* Lines 790-797: the header line and the unit cell, in units of alat.
SaveCell(v, st, types) ==
  <<Banner, Comment,
    Nums(<<Len(types), st.N_atoms, 0>>,
         <<Scaled(v.alat, A_TO_BOHR, AToBohrDigits), 0, 0, 0, 0, 0>>),
    Basis>>
  \o [i \in 1..3 |-> Nums(<<>>, [k \in 1..3 |-> Ratio(st.unit_cell[i][k], v.alat)])]
\* Lines 800-801: the species lines; a species without a mass is a KeyError.
SaveTypes(S, st, types) ==
  WriteAll(S, [i \in 1..Len(types) |->
                 IF types[i] \in DOMAIN st.masses
                 THEN Attempt(TypeLine(i, types[i], st.masses[types[i]]), TRUE)
                 ELSE Attempt(Blank, FALSE)],
           Err("KeyError", "mass"))
\* Lines 804-809: the atoms, their coordinates in units of alat.
SaveAtoms(S, v, st, types) ==
  WriteAll(S, [i \in 1..st.N_atoms |->
                 Attempt(Nums(<<i, Itau(types, st.atoms[i])>>,
                              [k \in 1..3 |-> Ratio(st.coords[i][k], v.alat)]), TRUE)],
           NoErr)

\* Lines 829-839: write t (from 0) of a matrix block of n atoms: the pair
\* line of the atoms i, j and the three rows x of their 3x3 block.  A row
\* is written if the matrix exists and has the entries.
MatrixRow_Transposed(m, r, c) == DynRow(m[c + 1][r + 1] \o m[c + 2][r + 1] \o m[c + 3][r + 1])
MatrixRow(m, r, c) == DynRow(m[r + 1][c + 1] \o m[r + 1][c + 2] \o m[r + 1][c + 3])
MatrixAttempt(dynmats, mi, n, i, j, x) ==
  IF x < 0 THEN Attempt(PairLine(i + 1, j + 1), TRUE)
  ELSE IF mi < Len(dynmats) /\ 3 * i + x < Rows(dynmats[mi + 1])
                            /\ 3 * j + 2 < Cols(dynmats[mi + 1])
  THEN Attempt(MatrixRow(dynmats[mi + 1], 3 * i + x, 3 * j), TRUE)
  ELSE Attempt(Blank, FALSE)
\* Lines 819-842: the block of the matrix mi at the q point q.
BlockAttempts(dynmats, mi, n, q) ==
  [t \in 1..5 |-> Attempt(<<Blank, DynHead, Blank, QLine(q), Blank>>[t], TRUE)]
  \o [t \in 1..(4 * n * n) |->
        MatrixAttempt(dynmats, mi, n, ((t - 1) \div 4) \div n, ((t - 1) \div 4) % n,
                      ((t - 1) % 4) - 1)]
RECURSIVE StarAttempts(_, _, _, _, _)
StarAttempts(dynmats, count_q, n, q_star, jq) ==
  IF jq >= Len(q_star) THEN <<>>
  ELSE BlockAttempts(dynmats, count_q + jq, n, q_star[jq + 1])
       \o StarAttempts(dynmats, count_q, n, q_star, jq + 1)
\* Lines 812-842: the blocks of the star iq; no star iq is an IndexError.
SaveStar(S, v, st, iq, count_q) ==
  IF S.err # NoErr THEN S
  ELSE IF iq >= Len(v.q_stars) THEN [S EXCEPT !.err = Err("IndexError", "q_stars")]
  ELSE WriteAll(S, StarAttempts(v.dynmats, count_q, st.N_atoms, v.q_stars[iq + 1], 0),
                Err("IndexError", "dynmats"))

\* Lines 845-867: the diagonalisation summary of the first matrix of the
\* star.  An empty star is an IndexError at line 848, and an exception of
\* DyagDinQ (line 854) ends the call after the rule.
SaveSummary(S, v, st, iq, count_q) ==
  IF S.err # NoErr THEN S
  ELSE IF v.q_stars[iq + 1] = <<>>
  THEN [lines |-> S.lines \o <<Blank, DiagHead, Blank>>, err |-> Err("IndexError", "q_star")]
  ELSE IF DyagError(v, count_q) # NoErr
  THEN [lines |-> S.lines \o <<Blank, DiagHead, Blank, QLine(v.q_stars[iq + 1][1]), Blank, Rule>>,
        err |-> DyagError(v, count_q)]
  ELSE [lines |-> S.lines
                  \o <<Blank, DiagHead, Blank, QLine(v.q_stars[iq + 1][1]), Blank, Rule>>
                  \o QEModes(3 * st.N_atoms, st.N_atoms) \o <<Rule>>,
        err |-> NoErr]
SaveBody(v, st, types, iq, count_q) ==
  SaveSummary(
    SaveStar(
      SaveAtoms(
        SaveTypes([lines |-> SaveCell(v, st, types), err |-> NoErr], st, types),
        v, st, types),
      v, st, iq, count_q),
    v, st, iq, count_q)
\* Lines 772-868: the file of the star iq; the banner is written before the
\* structure is first used (line 777).
SaveFile(v, iq, count_q) ==
  IF v.structure = None
  THEN [lines |-> <<Banner>>, err |-> Err("AttributeError", "structure is None")]
  ELSE IF Len(v.structure[1].atoms) < v.structure[1].N_atoms
  THEN [lines |-> <<Banner>>, err |-> Err("IndexError", "atoms")]
  ELSE SaveBody(v, v.structure[1],
                TypesFrom(v.structure[1].atoms, 1, v.structure[1].N_atoms, <<>>),
                iq, count_q)

WriteFile(fs, path, lines) ==
  [f \in (DOMAIN fs) \cup {path} |-> IF f = path THEN lines ELSE fs[f]]
\* Lines 762-868: the loop over the stars; the result is [fs, err,
\* diagonalized], the last being the indices dyag_q_index of the matrices
\* that line 854 diagonalized, in the order of the calls (line 817 takes
\* count_q before the blocks of the star are written).
RECURSIVE SaveLoop(_, _, _, _, _, _, _)
SaveNext(v, fs, filename, full_name, nqirr, iq, count_q, S) ==
  IF S.err # NoErr
  THEN [fs |-> WriteFile(fs, FilePath(filename, iq, full_name), S.lines), err |-> S.err,
        diagonalized |-> <<>>]
  ELSE [SaveLoop(v, WriteFile(fs, FilePath(filename, iq, full_name), S.lines),
                 filename, full_name, nqirr, iq + 1, count_q + Len(v.q_stars[iq + 1]))
          EXCEPT !.diagonalized = <<count_q>> \o @]
SaveLoop(v, fs, filename, full_name, nqirr, iq, count_q) ==
  IF iq >= nqirr THEN [fs |-> fs, err |-> NoErr, diagonalized |-> <<>>]
  ELSE SaveNext(v, fs, filename, full_name, nqirr, iq, count_q, SaveFile(v, iq, count_q))
\* Lines 727-868.
save_qe(v, fs, filename, full_name) ==
  SaveLoop(v, fs, filename, full_name, IF full_name THEN 1 ELSE v.nqirr, 0, 0)

\* ------------------------------------------------------------------ state
VARIABLES
  insts,    \* the Phonons objects of the caller: slot -> fields
  structs,  \* the Structure objects: identity -> value
  qtots,    \* the list objects made for q_tot: identity -> list of q vectors
  qstars,   \* the list objects made for q_stars: identity -> list of stars
  files,    \* the file system: name of an existing file -> lines
  saved,    \* the last complete save_qe (receiver, arguments, diagonalized matrices), or None
  last,     \* the last call: operation, receiver, arguments, exception, result
  scan      \* the locals of the scan loops of a file being read line by line, or None
vars == <<insts, structs, qtots, qstars, files, saved, last, scan>>

InstIds == 1..MaxInst
StructIds == 1..(MaxInst + 1)
NqirrArgs == 0..MaxNqirr

\* Lines 56-75: the fields __init__ sets, for the object in slot i.  The
\* lists self.q_tot and self.q_stars are new objects, named after the slot;
\* structure = 0 is None.
NewPhonons(i, nqirr) ==
  [dynmats |-> <<>>, nqirr |-> nqirr, q_tot |-> i,
   dielectric_tensor |-> None, effective_charges |-> None, raman_tensor |-> None,
   alat |-> Fix, initialized |-> FALSE, q_stars |-> i, structure |-> 0]

\* What an instance holds, with every reference followed.
ViewOf(p, ss, qt, qs) ==
  [structure |-> IF p.structure = 0 THEN None ELSE Some(ss[p.structure]),
   dynmats |-> p.dynmats, nqirr |-> p.nqirr, q_tot |-> qt[p.q_tot],
   q_stars |-> qs[p.q_stars], alat |-> p.alat,
   dielectric_tensor |-> p.dielectric_tensor,
   effective_charges |-> p.effective_charges,
   raman_tensor |-> p.raman_tensor, initialized |-> p.initialized]
View(i) == ViewOf(insts[i], structs, qtots, qstars)

\* The state of a LoadFromQE call on the object p.
CallState(p, ss, qt, qs) ==
  [st |-> IF p.structure = 0 THEN EmptyStructure ELSE ss[p.structure], newst |-> FALSE,
   alat |-> p.alat, dynmats |-> p.dynmats,
   dielectric_tensor |-> p.dielectric_tensor,
   effective_charges |-> p.effective_charges,
   raman_tensor |-> p.raman_tensor, initialized |-> p.initialized,
   q_tot |-> qt[p.q_tot], q_stars |-> qs[p.q_stars], err |-> NoErr]

\* The identity of a new Structure object: one no instance of ps refers to.
NewStructId(ps) ==
  LET used == {ps[k].structure : k \in DOMAIN ps}
  IN CHOOSE r \in StructIds : r \notin used /\ \A r2 \in StructIds : r2 \notin used => r <= r2
\* Objects no instance refers to are collected.
Collect(ss, ps) == [r \in {ps[k].structure : k \in DOMAIN ps} \ {0} |-> ss[r]]

\* The fields of p after a LoadFromQE call that ended in the state W.
AfterLoad(p, W) ==
  [p EXCEPT !.alat = W.alat, !.dynmats = W.dynmats,
            !.dielectric_tensor = W.dielectric_tensor,
            !.effective_charges = W.effective_charges,
            !.raman_tensor = W.raman_tensor,
            !.initialized = W.initialized]

\* The record of a call: the operation, the slot of the receiver, the
\* exception it raised (NoErr if it returned) and what it returned.
Call(op, self, err, ret) == [op |-> op, self |-> self, err |-> err, ret |-> ret]

InitWith(fs) ==
  /\ insts = [i \in {} |-> 0]
  /\ structs = [r \in {} |-> 0]
  /\ qtots = [i \in InstIds |-> <<>>]
  /\ qstars = [i \in InstIds |-> <<>>]
  /\ files = fs
  /\ saved = None
  /\ last = Call("init", 0, NoErr, None)
  /\ scan = None
Init == InitWith(InitialFiles)

\* ---------------------------------------------------------------- actions
\* A new object takes the first free slot.
FreeSlot(i) == i \notin DOMAIN insts /\ \A k \in InstIds : k < i => k \in DOMAIN insts

\* Installs the receiver i with fields p after a call that (re)bound its
\* structure to the value st when newst, and left its lists as qt, qs.
Install(i, p, newst, st, qt, qs) ==
  LET others == [k \in (DOMAIN insts) \ {i} |-> insts[k]]
      newid  == NewStructId(others)
      p1     == [p EXCEPT !.structure = IF newst THEN newid ELSE @]
      ps1    == [k \in (DOMAIN insts) \cup {i} |-> IF k = i THEN p1 ELSE insts[k]]
      ss1    == IF newst
                THEN [r \in (DOMAIN structs) \cup {newid} |-> IF r = newid THEN st ELSE structs[r]]
                ELSE structs
  IN /\ insts' = ps1
     /\ structs' = Collect(ss1, ps1)
     /\ qtots' = [qtots EXCEPT ![p.q_tot] = qt]
     /\ qstars' = [qstars EXCEPT ![p.q_stars] = qs]

\* Phonons(nqirr = n): lines 28-75 with structure = None, which is neither a
\* path nor a Structure.
ConstructEmpty(i, nqirr) ==
  /\ FreeSlot(i)
  /\ Install(i, NewPhonons(i, nqirr), FALSE, EmptyStructure, <<>>, <<>>)
  /\ UNCHANGED <<files, saved, scan>>
  /\ last' = Call("Phonons", i, NoErr, None)

\* Phonons(path, nqirr, full_name): lines 28-80.  An exception of LoadFromQE
\* leaves __init__, and the caller gets no object.  W is the state in which
\* the LoadFromQE call ended.
ConstructDone(i, p, W) ==
  /\ Len(W.dynmats) <= MaxMats
  /\ IF W.err = NoErr
     THEN Install(i, AfterLoad(p, W), W.newst, W.st, W.q_tot, W.q_stars)
     ELSE UNCHANGED <<insts, structs, qtots, qstars>>
  /\ last' = Call("PhononsFromFile", i, W.err, None)
  /\ UNCHANGED <<files, saved, scan>>
ConstructFromFile(i, fildyn_prefix, nqirr, full_name) ==
  /\ FreeSlot(i)
  /\ ConstructDone(i, NewPhonons(i, nqirr),
                   LoadFromQE(CallState(NewPhonons(i, nqirr), structs,
                                        [qtots EXCEPT ![i] = <<>>],
                                        [qstars EXCEPT ![i] = <<>>]),
                              files, fildyn_prefix, nqirr, full_name))

\* self.LoadFromQE(fildyn_prefix, nqirr, full_name) on an existing object.
LoadDone(i, p, W) ==
  /\ Len(W.dynmats) <= MaxMats
  /\ Install(i, AfterLoad(p, W), W.newst, W.st, W.q_tot, W.q_stars)
  /\ last' = Call("LoadFromQE", i, W.err, None)
  /\ UNCHANGED <<files, saved, scan>>
DoLoadFromQE(i, fildyn_prefix, nqirr, full_name) ==
  /\ i \in DOMAIN insts
  /\ LoadDone(i, insts[i],
              LoadFromQE(CallState(insts[i], structs, qtots, qstars),
                         files, fildyn_prefix, nqirr, full_name))

\* Lines 81-95 of __init__ with a Structure argument: the structure is
\* stored, the arguments are checked, then "for i in nqirr" iterates over the
\* integer nqirr, which raises TypeError before any matrix is made.
InitFromStructure(p, r, st, nqirr) ==
  IF st.N_atoms <= 0
  THEN [p |-> [p EXCEPT !.structure = r], err |-> Err("ValueError", "empty structure")]
  ELSE IF nqirr <= 0
  THEN [p |-> [p EXCEPT !.structure = r], err |-> Err("ValueError", "nqirr")]
  ELSE [p |-> [p EXCEPT !.structure = r, !.dynmats = <<>>],
        err |-> Err("TypeError", "int is not iterable")]

\* Phonons(structure, nqirr) with a Structure: r = 0 is a new Structure(),
\* another r the Structure object of that identity.  No result of
\* InitFromStructure is free of an exception, so the caller gets no object.
ConstructFromStructure(i, r, nqirr) ==
  /\ FreeSlot(i)
  /\ r = 0 \/ r \in DOMAIN structs
  /\ last' = Call("PhononsFromStructure", i,
                  InitFromStructure(NewPhonons(i, nqirr), r,
                                    IF r = 0 THEN EmptyStructure ELSE structs[r],
                                    nqirr).err,
                  None)
  /\ UNCHANGED <<insts, structs, qtots, qstars, files, saved, scan>>

\* Lines 397-405: the fields of the object Copy returns, made by Phonons()
\* in slot j: q_tot and q_stars are the lists of self, the matrices are
\* copied, everything else is as the constructor left it.
CopyOf(p, j) ==
  [NewPhonons(j, 1) EXCEPT !.q_tot = p.q_tot, !.nqirr = p.nqirr,
                           !.initialized = p.initialized, !.q_stars = p.q_stars,
                           !.dynmats = p.dynmats]

\* ret = self.Copy(), the result going to the free slot j.  Line 398 calls
\* self.structure.copy(), an AttributeError when self.structure is None.
DoCopy(i, j) ==
  /\ i \in DOMAIN insts
  /\ FreeSlot(j)
  /\ IF insts[i].structure = 0
     THEN /\ UNCHANGED <<insts, structs, qtots, qstars>>
          /\ last' = Call("Copy", i, Err("AttributeError", "structure is None"), None)
     ELSE /\ Install(j, CopyOf(insts[i], j), TRUE, structs[insts[i].structure],
                     qtots[insts[i].q_tot], qstars[insts[i].q_stars])
          /\ last' = Call("Copy", i, NoErr, Some(j))
  /\ UNCHANGED <<files, saved, scan>>

\* self.save_qe(filename, full_name).  R is the result of the call: the
\* files as it left them and the exception that ended it.
SaveDone(i, filename, full_name, R) ==
  /\ files' = R.fs
  /\ saved' = IF R.err = NoErr
              THEN Some([view |-> View(i), filename |-> filename, full_name |-> full_name,
                         diagonalized |-> R.diagonalized])
              ELSE None
  /\ last' = Call("save_qe", i, R.err, None)
  /\ UNCHANGED <<insts, structs, qtots, qstars, scan>>
DoSave(i, filename, full_name) ==
  /\ i \in DOMAIN insts
  /\ SaveDone(i, filename, full_name, save_qe(View(i), files, filename, full_name))

\* A call that assigns to no field of an object: it raises err, or returns
\* ret.
Returns(op, i, err, ret) ==
  /\ last' = Call(op, i, err, IF err = NoErr THEN Some(ret) ELSE None)
  /\ UNCHANGED <<insts, structs, qtots, qstars, files, saved, scan>>

\* self.DyagDinQ(iq)
DoDyagDinQ(i, iq) ==
  /\ i \in DOMAIN insts
  /\ IF DyagError(View(i), iq) # NoErr
     THEN Returns("DyagDinQ", i, DyagError(View(i), iq), None)
     ELSE \E r \in DyagDinQ(View(i), iq) : Returns("DyagDinQ", i, NoErr, r)

\* self.GetUpsilonMatrix(T)
DoGetUpsilonMatrix(i, T) ==
  /\ i \in DOMAIN insts
  /\ Returns("GetUpsilonMatrix", i, UpsilonError(View(i), T),
             Array(<<Len(View(i).dynmats[1]), Len(View(i).dynmats[1])>>))

\* self.GetProbability(displacement, T, upsilon_matrix)
DoGetProbability(i, disp, T, upsilon_matrix) ==
  /\ i \in DOMAIN insts
  /\ Returns("GetProbability", i, ProbabilityError(View(i), disp, T, upsilon_matrix),
             Array(<<>>))

\* self.GetRatioProbability(structure, T, dyn0, T0), the structure being the
\* one of identity r and dyn0 the object j.
DoGetRatioProbability(i, r, T, j, T0) ==
  /\ i \in DOMAIN insts /\ j \in DOMAIN insts /\ r \in DOMAIN structs
  /\ Returns("GetRatioProbability", i, RatioError(View(i), structs[r], T, View(j), T0),
             Array(<<>>))

\* Lines 709-722: the object GetStrainMatrix returns, made by Copy in slot j,
\* when DyagDinQ returned three modes: the loops of lines 652-659 and the
\* slices [3:] are empty, and the matrix rebuilt at line 711 is zero.
StrainedCopy(p, j) == [CopyOf(p, j) EXCEPT !.dynmats[1] = ZerosC(3, 3)]
\* Line 709: the object lines 710-722 rebuild, out_dyn and not self.
StrainSelf(i, j) == i
StrainTarget(i, j) == j
\* ret = self.GetStrainMatrix(new_cell, T), the result going to the free
\* slot j, for T <= 0 and a receiver of one atom.
DoGetStrainMatrix(i, j, new_cell, T) ==
  /\ i \in DOMAIN insts
  /\ FreeSlot(j)
  /\ IF StrainError(View(i), T) # NoErr
     THEN /\ UNCHANGED <<insts, structs, qtots, qstars>>
          /\ last' = Call("GetStrainMatrix", i, StrainError(View(i), T), None)
     ELSE /\ structs[insts[i].structure].N_atoms = 1
          /\ Install(StrainTarget(i, j), StrainedCopy(insts[i], j), TRUE,
                     change_unit_cell(structs[insts[i].structure], new_cell),
                     qtots[insts[i].q_tot], qstars[insts[i].q_stars])
          /\ last' = Call("GetStrainMatrix", i, NoErr, Some(j))
  /\ UNCHANGED <<files, saved, scan>>

\* self.GetRamanResponce(pol_in, pol_out, T)
DoGetRamanResponce(i, T, elementwise) ==
  /\ i \in DOMAIN insts
  /\ Returns("GetRamanResponce", i, RamanError(View(i), elementwise),
             Array(<<3 * View(i).structure[1].N_atoms>>))

\* self.ExtractRandomStructures(size, T, isolate_atoms)
DoExtractRandomStructures(i, size, T, isolate_atoms, d) ==
  /\ i \in DOMAIN insts
  /\ IF ExtractError(View(i), size, isolate_atoms) # NoErr
     THEN d = 0
     ELSE d = 0 \/ View(i).structure[1].N_atoms > 1
  /\ Returns("ExtractRandomStructures", i, ExtractError(View(i), size, isolate_atoms),
             ExtractRandomStructures(View(i).structure[1], size, isolate_atoms, d))

\* self.get_energy_forces(structure, vector1d), the structure being the one
\* of identity r.
DoGetEnergyForces(i, r, vector1d) ==
  /\ i \in DOMAIN insts /\ r \in DOMAIN structs
  /\ Returns("get_energy_forces", i, EnergyForcesError(View(i), structs[r]),
             <<Array(<<>>),
               Array(IF vector1d THEN <<3 * structs[r].N_atoms>>
                     ELSE <<structs[r].N_atoms, 3>>)>>)

\* self.CheckCompatibility(other): other is the object j, or with j = 0 a
\* value that is no Phonons (line 425).
DoCheckCompatibility(i, j) ==
  /\ i \in DOMAIN insts /\ (j = 0 \/ j \in DOMAIN insts)
  /\ IF j = 0 THEN Returns("CheckCompatibility", i, NoErr, FALSE)
     ELSE Returns("CheckCompatibility", i, CompatibilityError(View(i), View(j)),
                  CheckCompatibility(View(i), View(j)))

\* self.ForcePositiveDefinite(), for an object whose matrices are of the
\* forms np.linalg.eig is modelled for.  R is the result of the call.
ForceDone(i, R) ==
  /\ insts' = [insts EXCEPT ![i].dynmats = R.dynmats]
  /\ last' = Call("ForcePositiveDefinite", i, R.err, None)
  /\ UNCHANGED <<structs, qtots, qstars, files, saved, scan>>
DoForcePositiveDefinite(i) ==
  /\ i \in DOMAIN insts
  /\ \A iq \in 0..(Len(insts[i].dynmats) - 1) :
       (ForceError(View(i)) = NoErr /\ DyagError(View(i), iq) = NoErr)
         => EigModelled(View(i).structure[1], insts[i].dynmats[iq + 1])
  /\ ForceDone(i, ForcePositiveDefinite(View(i)))

\* --------------------------------------------------------- specifications
\* Loading: one object, made by a constructor, and LoadFromQE calls on it.
NextLoad ==
  \/ \E nqirr \in 1..MaxNqirr : ConstructEmpty(1, nqirr)
  \/ \E nqirr \in NqirrArgs, full_name \in BOOLEAN :
       ConstructFromFile(1, "a", nqirr, full_name)
  \/ \E i \in InstIds, r \in {0} \cup StructIds, nqirr \in NqirrArgs :
       ConstructFromStructure(i, r, nqirr)
  \/ \E nqirr \in NqirrArgs, full_name \in BOOLEAN : DoLoadFromQE(1, "a", nqirr, full_name)
SpecLoad == Init /\ [][NextLoad]_vars

\* Copying: objects made by a constructor or by Copy, and LoadFromQE calls.
NextCopy ==
  \/ \E i \in InstIds : ConstructEmpty(i, 1)
  \/ \E i \in InstIds, nqirr \in 1..MaxNqirr : ConstructFromFile(i, "a", nqirr, FALSE)
  \/ \E i \in InstIds, nqirr \in 1..MaxNqirr : DoLoadFromQE(i, "a", nqirr, FALSE)
  \/ \E i, j \in InstIds : DoCopy(i, j)
SpecCopy == Init /\ [][NextCopy]_vars

\* Saving: an object made by a constructor, LoadFromQE and save_qe calls on
\* it, and a second object made from the files save_qe wrote.
NextSave ==
  \/ \E nqirr \in 1..MaxNqirr : ConstructEmpty(1, nqirr)
  \/ \E nqirr \in 1..MaxNqirr : ConstructFromFile(1, "a", nqirr, FALSE)
  \/ \E nqirr \in 1..MaxNqirr : ConstructFromFile(2, "s", nqirr, FALSE)
  \/ \E nqirr \in 1..MaxNqirr : DoLoadFromQE(1, "a", nqirr, FALSE)
  \/ \E filename \in SavePrefixes, full_name \in BOOLEAN : DoSave(1, filename, full_name)
SpecSave == Init /\ [][NextSave]_vars

\* Reading: objects made by a constructor, by Copy or by GetStrainMatrix,
\* and the operations that compute from them.
Temperatures == {-1, 0}
UpsilonTemperatures == {-1, 0, 1}
Shapes == {[ndim |-> 1, size |-> 3], [ndim |-> 2, size |-> 3], [ndim |-> 2, size |-> 6]}
NewCells == {[a \in 1..3 |-> [b \in 1..3 |-> IF a = b THEN 2 * Fix ELSE 0]]}
IsolateArgs == {<<>>, <<0>>, <<1>>, <<0, 0>>}
Displacements == {0, Cent}
NextRead ==
  \/ \E nqirr \in 1..2 : ConstructEmpty(1, nqirr)
  \/ \E i \in InstIds, prefix \in {"a", "b"} : ConstructFromFile(i, prefix, 1, FALSE)
  \/ 1 \in DOMAIN insts /\ insts[1].dynmats = <<>> /\ DoLoadFromQE(1, "a", 1, FALSE)
  \/ DoCopy(1, 2)
  \/ DoSave(1, "s", FALSE)
  \/ \E i \in InstIds, iq \in -1..1 : DoDyagDinQ(i, iq)
  \/ \E T \in UpsilonTemperatures : DoGetUpsilonMatrix(1, T)
  \/ \E disp \in Shapes, T \in Temperatures, upsilon_matrix \in {None, Some(3)} :
       DoGetProbability(1, disp, T, upsilon_matrix)
  \/ \E j \in InstIds, r \in StructIds, T \in Temperatures :
       DoGetRatioProbability(1, r, T, j, 0)
  \/ \E new_cell \in NewCells, T \in Temperatures : DoGetStrainMatrix(1, 2, new_cell, T)
  \/ \E T \in Temperatures, elementwise \in BOOLEAN : DoGetRamanResponce(1, T, elementwise)
  \/ \E size \in 0..2, isolate_atoms \in IsolateArgs, d \in Displacements :
       DoExtractRandomStructures(1, size, 0, isolate_atoms, d)
  \/ \E r \in StructIds, vector1d \in BOOLEAN : DoGetEnergyForces(1, r, vector1d)
  \/ \E i \in InstIds, j \in {0} \cup InstIds : DoCheckCompatibility(i, j)
SpecRead == Init /\ [][NextRead]_vars

\* Forcing: objects made by a constructor or by Copy, loads, and
\* ForcePositiveDefinite calls.
NextForce ==
  \/ ConstructEmpty(1, 1)
  \/ \E i \in InstIds, prefix \in {"a", "b"}, nqirr \in 1..2 :
       ConstructFromFile(i, prefix, nqirr, FALSE)
  \/ \E prefix \in {"a", "b"} :
       1 \in DOMAIN insts /\ insts[1].dynmats = <<>> /\ DoLoadFromQE(1, prefix, 1, FALSE)
  \/ DoCopy(1, 2)
  \/ \E i \in InstIds : DoForcePositiveDefinite(i)
SpecForce == Init /\ [][NextForce]_vars

\* Blocks: an object made from the files of a prefix, loads on it, save_qe
\* calls, and a second object made from the files save_qe wrote.
NextBlocks ==
  \/ \E prefix \in {"a", "c"}, nqirr \in 1..2 : ConstructFromFile(1, prefix, nqirr, FALSE)
  \/ \E nqirr \in 1..2 : ConstructFromFile(2, "s", nqirr, FALSE)
  \/ \E prefix \in {"a", "c"} : DoLoadFromQE(1, prefix, 1, FALSE)
  \/ DoSave(1, "s", FALSE)
SpecBlocks == Init /\ [][NextBlocks]_vars

\* Compatibility: objects made by a constructor or by Copy, and
\* CheckCompatibility calls between them.
NextCompat ==
  \/ ConstructEmpty(1, 1)
  \/ \E i \in InstIds, prefix \in {"a", "b", "c"}, nqirr \in 1..2 :
       ConstructFromFile(i, prefix, nqirr, FALSE)
  \/ DoCopy(1, 2)
  \/ \E i \in InstIds, j \in {0} \cup InstIds : DoCheckCompatibility(i, j)
SpecCompat == Init /\ [][NextCompat]_vars

\* ------------------------------------------ the scan loops, line by line
\* Lines 207-332 on one file, an iteration of a loop at a time.  scan holds
\* the locals of the call: the phase (the seek loop of lines 212-216, the
\* block loop of lines 236-328, or how the scan ended), the name of the
\* file, dynlines, the state W of the call, the locals ps of the block loop
\* and the number of iterations that consumed a line.
Without(lines, kind) == SelectSeq(lines, LAMBDA l : l.k # kind)
\* Files of prefix "a" and damaged copies of them: "d" has no line with
\* 'cartesian axes', "e" no line with 'Diagonalizing', "g" stops after the
\* atoms.
ScanFiles ==
  [f \in {<<"a", 1>>, <<"a", 2>>, <<"d", 1>>, <<"e", 1>>, <<"g", 1>>} |->
     IF f = <<"a", 1>> THEN FileA1 ELSE IF f = <<"a", 2>> THEN FileA2
     ELSE IF f = <<"d", 1>> THEN Without(FileA2, "dynhead")
     ELSE IF f = <<"e", 1>> THEN Without(FileA2, "diag")
     ELSE SubSeq(FileA1, 1, SeekDyn(FileA1).popped - 1)]
InitScan == InitWith(ScanFiles)

\* The state of a LoadFromQE call of a new object when its loop over the
\* files starts (line 125).
ScanStart ==
  [CallState(NewPhonons(1, 1), structs, [qtots EXCEPT ![1] = <<>>],
             [qstars EXCEPT ![1] = <<>>]) EXCEPT
     !.st = EmptyStructure, !.newst = TRUE]
\* Lines 138-204: the file is read and its header parsed.
ScanOpen(path) ==
  /\ scan = None
  /\ path \in DOMAIN files
  /\ LET W == ReadHeader(ScanStart, files[path])
     IN scan' = Some([phase |-> IF W.err # NoErr THEN "raised" ELSE "seek",
                      path |-> path, dynlines |-> files[path], W |-> W,
                      ps |-> BlockLocals(W), iterations |-> 0])
  /\ UNCHANGED <<insts, structs, qtots, qstars, files, saved, last>>
\* Lines 212-216: one iteration of the seek loop.  dynlines[0] of an empty
\* list is an IndexError.
SeekStep ==
  /\ scan # None /\ scan[1].phase = "seek"
  /\ scan' = Some(
       IF scan[1].dynlines = <<>>
       THEN [scan[1] EXCEPT !.phase = "raised",
                            !.W = Raise(@, "IndexError", "no cartesian axes line")]
       ELSE [scan[1] EXCEPT
               !.dynlines = Tail(@),
               !.iterations = @ + 1,
               !.ps = BlockLocals(scan[1].W),
               !.phase = IF HasCartesianAxes(Head(scan[1].dynlines)) THEN "block" ELSE "seek"])
  /\ UNCHANGED <<insts, structs, qtots, qstars, files, saved, last>>
\* Line 238: index += 1.
Advance_Stay(index) == IF index < 0 THEN 0 ELSE index
Advance(index) == index + 1
\* Lines 236-332: one iteration of the block loop.  dynlines[index] past the
\* last line is an IndexError; the 'Diagonalizing' line ends the loop and
\* line 332 appends the star.
BlockIteration(c, index) ==
  IF index >= Len(c.dynlines)
  THEN [c EXCEPT !.phase = "raised", !.ps.index = index,
                 !.W = Raise(@, "IndexError", "no Diagonalizing line")]
  ELSE LET r == ReadLine(c.W, [c.ps EXCEPT !.index = index], c.dynlines[index + 1])
       IN [c EXCEPT !.iterations = @ + 1,
                    !.ps = r[2],
                    !.W = IF r[2].done THEN EndFile(r) ELSE r[1],
                    !.phase = IF r[1].err # NoErr THEN "raised"
                              ELSE IF r[2].done THEN "returned" ELSE "block"]
BlockStep ==
  /\ scan # None /\ scan[1].phase = "block"
  /\ scan' = Some(BlockIteration(scan[1], Advance(scan[1].ps.index)))
  /\ UNCHANGED <<insts, structs, qtots, qstars, files, saved, last>>
\* The call is over, by an exception or at line 332.
ScanClose ==
  /\ scan # None /\ scan[1].phase \in {"raised", "returned"}
  /\ scan' = None
  /\ UNCHANGED <<insts, structs, qtots, qstars, files, saved, last>>

\* Scanning: the loops of one file after another, and the constructor on
\* the same files.  An interpreter that is in a loop runs its next
\* iteration.
NextScan ==
  \/ \E path \in DOMAIN files : ScanOpen(path)
  \/ SeekStep
  \/ BlockStep
  \/ ScanClose
  \/ \E prefix \in {"a", "d", "e", "g"} : ConstructFromFile(1, prefix, 1, FALSE)
SpecScan == InitScan /\ [][NextScan]_vars /\ WF_vars(SeekStep) /\ WF_vars(BlockStep)

\* ------------------------------------------------------------ properties
\* The arguments a LoadFromQE call can be made with.
LoadArgs == [prefix : LoadPrefixes, nqirr : NqirrArgs, full_name : BOOLEAN]
\* The call self.LoadFromQE(a.prefix, a.nqirr, a.full_name) on the object i.
LoadCall(i, a) == DoLoadFromQE(i, a.prefix, a.nqirr, a.full_name)
\* The call Phonons(a.prefix, a.nqirr, a.full_name), the result going to i.
NewCall(i, a) == ConstructFromFile(i, a.prefix, a.nqirr, a.full_name)
\* The objects and the files.
heap == <<insts, structs, qtots, qstars, files>>

\* C2: in every reachable state every instance holds as many matrices as flat
\* q points, and as many as the lengths of its stars add up to.
C2_Counts ==
  \A i \in DOMAIN insts :
    /\ Len(View(i).dynmats) = Len(View(i).q_tot)
    /\ Len(View(i).q_tot) = SumLen(View(i).q_stars)

\* C3: after a LoadFromQE(prefix, n) that returns without error, self.nqirr
\* and len(self.q_stars) both equal n.
C3_NqirrAfterLoad ==
  [][\A i \in InstIds, a \in LoadArgs :
       (LoadCall(i, a) /\ last'.err = NoErr)
         => /\ insts'[i].nqirr = a.nqirr
            /\ Len(qstars'[insts'[i].q_stars]) = a.nqirr]_vars

\* C4: LoadFromQE with nqirr <= 0, or with full_name and nqirr > 1, raises
\* ValueError from the checks of the arguments, and no object and no file
\* has changed.
BadArgs(a) == a.nqirr <= 0 \/ (a.full_name /\ a.nqirr > 1)
C4_BadArguments ==
  [][\A i \in InstIds, a \in LoadArgs :
       (BadArgs(a) /\ (LoadCall(i, a) \/ NewCall(i, a)))
         => /\ last'.err.exc = "ValueError"
            /\ last'.err.why \in {"nqirr", "full_name"}
            /\ UNCHANGED heap]_vars
\* A loaded object on which LoadFromQE was called with full_name and nqirr > 1.
C4_Witness ==
  /\ last.op = "LoadFromQE"
  /\ last.err = Err("ValueError", "full_name")
  /\ insts[last.self].initialized
  /\ insts[last.self].dynmats # <<>>

\* The first iq whose file does not exist, nqirr if there is none.
FirstMissing(fs, a) ==
  LET missing == {iq \in 0..(a.nqirr - 1) : FilePath(a.prefix, iq, a.full_name) \notin DOMAIN fs}
  IN IF missing = {} THEN a.nqirr
     ELSE CHOOSE iq \in missing : \A k \in missing : iq <= k
\* The arguments are accepted, an expected file is missing, and the files
\* before it are read without an exception.
ReachesMissing(i, a) ==
  /\ ~BadArgs(a)
  /\ FirstMissing(files, a) < a.nqirr
  /\ LoadLoop([CallState(insts[i], structs, qtots, qstars) EXCEPT !.st = EmptyStructure],
              files, a.prefix, FirstMissing(files, a), a.full_name, 0).err = NoErr

C6_InitializedOnlyAfterFullLoad ==
  (/\ last.op = "LoadFromQE"
   /\ last.err # NoErr
   /\ last.err.why \notin {"nqirr", "full_name"})
    => ~insts[last.self].initialized

\* C7: Phonons(structure, nqirr) with N_atoms > 0 and nqirr >= 1 returns an
\* object that owns the structure and holds nqirr zero matrices of size
\* 3*N_atoms; with N_atoms <= 0 or nqirr <= 0 it raises ValueError.
C7_FromStructure ==
  [][\A i \in InstIds, r \in DOMAIN structs, nqirr \in NqirrArgs :
       ConstructFromStructure(i, r, nqirr)
         => IF structs[r].N_atoms > 0 /\ nqirr >= 1
            THEN /\ last'.err = NoErr
                 /\ i \in DOMAIN insts'
                 /\ insts'[i].structure = r
                 /\ insts'[i].dynmats =
                      SeqOf(ZerosR(3 * structs[r].N_atoms, 3 * structs[r].N_atoms), nqirr)
            ELSE last'.err.exc = "ValueError"]_vars

\* C9: the object Copy returns has in every field the value of the original.
C9_ExactCopy ==
  (last.op = "Copy" /\ last.err = NoErr) => View(last.ret[1]) = View(last.self)

\* Two real numbers, two rows, two matrices that agree within the relative
\* tolerance, entry by entry.
CloseSeq(x, y) == Len(x) = Len(y) /\ \A k \in 1..Len(x) : Close(x[k], y[k])
CloseRows(x, y) == Len(x) = Len(y) /\ \A k \in 1..Len(x) : CloseSeq(x[k], y[k])
CloseMats(x, y) ==
  /\ Rows(x) = Rows(y)
  /\ \A r \in 1..Rows(x) : Len(x[r]) = Len(y[r])
       /\ \A c \in 1..Len(x[r]) : CloseSeq(x[r][c], y[r][c])
\* The same structure: atoms and masses, cell and coordinates within tolerance.
SameStructure(x, y) ==
  /\ x.N_atoms = y.N_atoms /\ x.atoms = y.atoms /\ x.masses = y.masses
  /\ CloseRows(x.coords, y.coords) /\ CloseRows(x.unit_cell, y.unit_cell)
\* The state a save_qe / Phonons round trip is to reproduce.
SameData(v, w) ==
  /\ Len(v.dynmats) = Len(w.dynmats)
  /\ \A k \in 1..Len(v.dynmats) : CloseMats(v.dynmats[k], w.dynmats[k])
  /\ v.structure # None /\ w.structure # None
  /\ SameStructure(v.structure[1], w.structure[1])
  /\ Len(v.q_stars) = Len(w.q_stars)
  /\ \A k \in 1..Len(v.q_stars) : CloseRows(v.q_stars[k], w.q_stars[k])

\* C1: when an initialized object has been saved with save_qe(prefix), a
\* Phonons(prefix, nqirr) with its nqirr raises nothing and holds the same
\* matrices, structure and stars as the saved object, within the tolerance.
C1_RoundTrip ==
  [][\A j \in InstIds :
       (/\ saved # None
        /\ saved[1].view.initialized
        /\ ~saved[1].full_name
        /\ NewCall(j, [prefix |-> saved[1].filename, nqirr |-> saved[1].view.nqirr,
                       full_name |-> FALSE]))
       => /\ last'.err = NoErr
          /\ SameData(ViewOf(insts'[j], structs', qtots', qstars'), saved[1].view)]_vars
\* The operations that compute from an object.
ReadOnlyOps ==
  {"DyagDinQ", "GetUpsilonMatrix", "GetProbability", "GetRatioProbability",
   "GetStrainMatrix", "GetRamanResponce", "ExtractRandomStructures",
   "get_energy_forces", "save_qe", "Copy", "CheckCompatibility"}

\* C8: a call of an operation other than LoadFromQE and ForcePositiveDefinite
\* leaves the receiver as it was: its matrices, its structure (atoms,
\* coordinates, cell, masses), q_tot, q_stars, nqirr, alat, the tensors and
\* initialized are after the call what they were before it.
C8_ReceiverUnchanged ==
  [][last'.op \in ReadOnlyOps
     => /\ last'.self \in DOMAIN insts
        /\ last'.self \in DOMAIN insts'
        /\ ViewOf(insts'[last'.self], structs', qtots', qstars') = View(last'.self)]_vars
\* GetStrainMatrix has returned an object with another cell and another
\* matrix than its receiver holds.
C8_Witness ==
  /\ last.op = "GetStrainMatrix" /\ last.err = NoErr /\ last.ret = Some(2)
  /\ last.self = 1 /\ View(1).initialized
  /\ View(2).structure[1].unit_cell # View(1).structure[1].unit_cell
  /\ View(2).dynmats[1] # View(1).dynmats[1]

\* What DyagDinQ is to return for the eigenvalues eigvals, column k of the
\* eigenvectors being the one of eigvals[k]: r.pol_vects[k] names the
\* eigenvector in column k of the result.
DyagContract(eigvals, r) ==
  /\ Len(r.frequencies) = Len(eigvals) /\ Len(r.pol_vects) = Len(eigvals)
  /\ Range(r.pol_vects) = 1..Len(eigvals)
  /\ \A k \in 1..Len(eigvals) :
       /\ Sign(r.frequencies[k]) = Sign(eigvals[r.pol_vects[k]])
       /\ r.frequencies[k] * r.frequencies[k] <= Abs(eigvals[r.pol_vects[k]])
       /\ Abs(eigvals[r.pol_vects[k]]) < (Abs(r.frequencies[k]) + 1) * (Abs(r.frequencies[k]) + 1)
  /\ \A k \in 1..(Len(eigvals) - 1) : r.frequencies[k] <= r.frequencies[k + 1]

\* C10: DyagDinQ(iq) returns for each eigenvalue v of the mass-weighted
\* matrix a frequency with the sign of v whose square is |v| (to the last
\* digit kept, and 0 for v = 0), the frequencies in non-decreasing order, and
\* in column i the eigenvector of the eigenvalue that gave frequency i.  A
\* step is concerned when it is the call DyagDinQ(iq) on the object i.
C10_DyagDinQ ==
  [][\A i \in InstIds, iq \in -1..1 :
       (/\ last'.op = "DyagDinQ" /\ last'.self = i /\ last'.err = NoErr
        /\ i \in DOMAIN insts /\ DyagError(View(i), iq) = NoErr)
       => \/ DyagContract(Eig(View(i).structure[1],
                              View(i).dynmats[PyIndex(iq, Len(View(i).dynmats)) + 1]).eigvals,
                          last'.ret[1])
          \/ ~DoDyagDinQ(i, iq)]_vars
\* DyagDinQ has returned a negative, a zero and two equal frequencies, and
\* has moved the columns.
C10_Witness ==
  /\ last.op = "DyagDinQ" /\ last.err = NoErr
  /\ \E k \in 1..Len(last.ret[1].frequencies) : last.ret[1].frequencies[k] < 0
  /\ \E k \in 1..Len(last.ret[1].frequencies) : last.ret[1].frequencies[k] = 0
  /\ \E k \in 2..Len(last.ret[1].frequencies) :
       last.ret[1].frequencies[k] = last.ret[1].frequencies[k - 1]
  /\ \E k \in 1..Len(last.ret[1].pol_vects) : last.ret[1].pol_vects[k] # k

\* C11: GetUpsilonMatrix(T) raises ValueError, the InvalidArgument of the
\* library, when T < 0 and when nqirr # 1, whatever the object holds; on a
\* loaded object with nqirr = 1 and T >= 0 it raises nothing.
C11_UpsilonErrors ==
  [][\A T \in UpsilonTemperatures :
       (last'.op = "GetUpsilonMatrix" /\ DoGetUpsilonMatrix(1, T))
         => IF T < 0 THEN last'.err = Err("ValueError", "T")
            ELSE IF View(1).nqirr # 1 THEN last'.err = Err("ValueError", "supercell")
            ELSE View(1).initialized => last'.err = NoErr]_vars
\* GetUpsilonMatrix has refused a loaded object whose nqirr is not 1, at a
\* temperature that is not negative.
C11_Witness ==
  /\ last.op = "GetUpsilonMatrix"
  /\ last.err = Err("ValueError", "supercell")
  /\ View(last.self).initialized
  /\ View(last.self).nqirr # 1

\* C12: ExtractRandomStructures raises the ValueError of line 995 when
\* nqirr # 1 and the ValueError of line 1001 when an index of isolate_atoms
\* is not below the number of atoms, and on a loaded object with nqirr = 1
\* and a list of indices that are all below the number of atoms it returns
\* a list of exactly size structures.
C12_ExtractChecks ==
  [][\A size \in 0..2, isolate_atoms \in IsolateArgs, d \in Displacements :
       (/\ last'.op = "ExtractRandomStructures" /\ View(1).initialized
        /\ DoExtractRandomStructures(1, size, 0, isolate_atoms, d))
         => IF View(1).nqirr # 1 THEN last'.err = Err("ValueError", "supercell")
            ELSE IF \E k \in 1..Len(isolate_atoms) :
                      isolate_atoms[k] >= View(1).structure[1].N_atoms
            THEN last'.err = Err("ValueError", "isolate_atoms")
            ELSE /\ last'.err = NoErr
                 /\ Len(last'.ret[1]) = size]_vars

\* C13: GetRamanResponce on a loaded object raises the ValueError of line
\* 941 when raman_tensor is None, and when a Raman tensor was read it raises
\* nothing and returns an array of one intensity per mode, 3*N_atoms numbers.
C13_RamanPresence ==
  [][\A T \in Temperatures, elementwise \in BOOLEAN :
       (/\ last'.op = "GetRamanResponce" /\ View(1).initialized
        /\ DoGetRamanResponce(1, T, elementwise))
         => IF View(1).raman_tensor = None
            THEN last'.err = Err("ValueError", "raman tensor")
            ELSE /\ last'.err = NoErr
                 /\ last'.ret = Some(Array(<<3 * View(1).structure[1].N_atoms>>))]_vars

\* The matrices x agree with the matrices y within the tolerance.
CloseDynmats(x, y) ==
  Len(x) = Len(y) /\ \A k \in 1..Len(x) : CloseMats(x[k], y[k])
\* C14: a ForcePositiveDefinite call that follows a ForcePositiveDefinite
\* call on the same object leaves every matrix of dynmats what the first
\* call made it, within the tolerance of floating point.
C14_Idempotent ==
  [][(/\ last.op = "ForcePositiveDefinite" /\ last.err = NoErr
      /\ last'.op = "ForcePositiveDefinite" /\ last'.err = NoErr
      /\ last'.self = last.self)
     => CloseDynmats(insts'[last.self].dynmats, insts[last.self].dynmats)]_vars

\* The names save_qe(filename, full_name) is to write for an object of nqirr
\* stars.
SaveNames(filename, full_name, nqirr) ==
  IF full_name THEN {<<filename, 0>>} ELSE {<<filename, k>> : k \in 1..nqirr}
Min(S) == CHOOSE x \in S : \A y \in S : x <= y
DiagPos(lines) == Min({k \in 1..Len(lines) : HasDiagonalizing(lines[k])} \cup {Len(lines) + 1})
QPosSet(lines) == {k \in 1..(DiagPos(lines) - 1) : HasQ(lines[k])}
RECURSIVE Sorted(_)
Sorted(S) == IF S = {} THEN <<>> ELSE <<Min(S)>> \o Sorted(S \ {Min(S)})
QPos(lines) == Sorted(QPosSet(lines))
\* The block of the q line at p ends before the next line that has a marker.
BlockEnd(lines, p) ==
  Min({k \in (p + 1)..Len(lines) : lines[k].k \notin {"nums", "blank"}} \cup {Len(lines) + 1})
IsPairRow(l) == l.nt = 2 /\ AllNumeric(l)
IsMatrixRow(l) == l.nt = 6 /\ AllNumeric(l)
\* The matrix row at t, in the block of the q line at p, belongs to the last
\* pair line 'i j' before it; r rows lie between the two.
RowPlace(lines, p, t) ==
  LET pairs == {u \in (p + 1)..(t - 1) : IsPairRow(lines[u])}
      u == IF pairs = {} THEN p ELSE Max(pairs)
      r == Cardinality({x \in (u + 1)..(t - 1) : IsMatrixRow(lines[x])})
  IN [R |-> 3 * ((IF pairs = {} THEN 1 ELSE lines[u].n[1]) - 1) + r + 1,
      C0 |-> 3 * ((IF pairs = {} THEN 1 ELSE lines[u].n[2]) - 1)]
Suppliers(lines, p, R, C) ==
  {t \in (p + 1)..(BlockEnd(lines, p) - 1) :
     /\ IsMatrixRow(lines[t])
     /\ RowPlace(lines, p, t).R = R
     /\ C - RowPlace(lines, p, t).C0 \in 1..3}
Supplied(lines, p, R, C) == Suppliers(lines, p, R, C) # {}
\* token[2k] + i token[2k+1] of the last row that gives entry (R, C).
SuppliedValue(lines, p, R, C) ==
  LET t == Max(Suppliers(lines, p, R, C))
      k == C - RowPlace(lines, p, t).C0 - 1
  IN <<lines[t].n[2 * k + 1], lines[t].n[2 * k + 2]>>
\* The flat index (from 1) of the j-th q vector of file k of a prefix.
RECURSIVE StarsBefore(_, _, _)
StarsBefore(fs, prefix, k) ==
  IF k <= 1 THEN 0
  ELSE StarsBefore(fs, prefix, k - 1) + Len(QPos(fs[<<prefix, k - 1>>]))
FlatIndex(fs, prefix, k, j) == StarsBefore(fs, prefix, k) + j
\* Object i was made just now from the nqirr files of the prefix.
FreshFrom(i, prefix, nqirr) ==
  /\ last'.op = "PhononsFromFile"
  /\ last'.self = i
  /\ ConstructFromFile(i, prefix, nqirr, FALSE)
  /\ last'.err = NoErr
BlockPrefixes == {"a", "c", "s"}

\* C16: in an object made from files, the matrix of every q point holds what
\* the block of that q point gives, and zero at every entry the block does
\* not give: nothing read for an earlier q point of the file stays in it.
C16_NoCarryOver ==
  [][\A i \in InstIds, prefix \in BlockPrefixes, nqirr \in 1..2 :
       FreshFrom(i, prefix, nqirr) =>
         \A k \in 1..nqirr :
           LET lines == files[<<prefix, k>>] IN
           \A j \in 1..Len(QPos(lines)) :
             LET m == insts'[i].dynmats[FlatIndex(files, prefix, k, j)] IN
             \A R \in 1..Rows(m), C \in 1..Rows(m) :
               ~Supplied(lines, QPos(lines)[j], R, C) => m[R][C] = <<0, 0>>]_vars

\* C17: in the matrix part of a block a row 'i j' selects the atom pair
\* (i-1, j-1) and restarts the row count, and the r-th row of six numbers
\* after it sets entry (3(i-1)+r, 3(j-1)+k) to token[2k] + i token[2k+1],
\* k = 0, 1, 2.  save_qe writes that layout: in each file it writes, every
\* entry of the matrix of every q point is given by exactly one row, with
\* the value the object holds, and an object made from the written files
\* holds the matrices of the stars that were written.
C17_RowLayout ==
  [][/\ \A i \in InstIds, prefix \in BlockPrefixes, nqirr \in 1..2 :
          FreshFrom(i, prefix, nqirr) =>
            \A k \in 1..nqirr :
              LET lines == files[<<prefix, k>>] IN
              \A j \in 1..Len(QPos(lines)) :
                LET m == insts'[i].dynmats[FlatIndex(files, prefix, k, j)] IN
                \A R \in 1..Rows(m), C \in 1..Rows(m) :
                  Supplied(lines, QPos(lines)[j], R, C)
                    => m[R][C] = SuppliedValue(lines, QPos(lines)[j], R, C)
     /\ \A filename \in SavePrefixes :
          (last'.op = "save_qe" /\ last'.err = NoErr /\ DoSave(1, filename, FALSE)) =>
            \A k \in 1..View(1).nqirr :
              LET lines == files'[<<filename, k>>] IN
              /\ Len(QPos(lines)) = Len(View(1).q_stars[k])
              /\ \A j \in 1..Len(QPos(lines)) :
                   LET m == View(1).dynmats[FlatIndex(files', filename, k, j)] IN
                   \A R \in 1..Rows(m), C \in 1..Rows(m) :
                     /\ Cardinality(Suppliers(lines, QPos(lines)[j], R, C)) = 1
                     /\ SuppliedValue(lines, QPos(lines)[j], R, C) = m[R][C]
     /\ \A nqirr \in 1..2 :
          (/\ saved # None /\ ~saved[1].full_name /\ saved[1].view.nqirr = nqirr
           /\ FreshFrom(2, saved[1].filename, nqirr))
            => /\ Len(insts'[2].dynmats) = SumLen(SubSeq(saved[1].view.q_stars, 1, nqirr))
               /\ \A x \in 1..Len(insts'[2].dynmats) :
                    insts'[2].dynmats[x] = saved[1].view.dynmats[x]]_vars
\* An object of two atoms and a star of two q points was saved, and a
\* second object now holds what was read back from the written file.
C17_Witness ==
  /\ last.op = "PhononsFromFile" /\ last.self = 2 /\ last.err = NoErr
  /\ saved # None
  /\ saved[1].view.structure[1].N_atoms = 2
  /\ Len(saved[1].view.q_stars[1]) = 2
  /\ 2 \in DOMAIN insts /\ insts[2].dynmats = saved[1].view.dynmats
  /\ insts[2].dynmats[1][1][5] # insts[2].dynmats[1][5][1]
  /\ insts[2].dynmats[1][1][5] # <<0, 0>>

\* The q vectors of the matrix blocks of a file, in file order.
QVectors(lines) == [j \in 1..Len(QPos(lines)) |-> lines[QPos(lines)[j]].n]
RECURSIVE Concat(_)
Concat(ss) == IF ss = <<>> THEN <<>> ELSE Head(ss) \o Concat(Tail(ss))
\* The flat index (from 1) of the j-th q vector of star k.
FlatOf(q_stars, k, j) == SumLen(SubSeq(q_stars, 1, k - 1)) + j

\* C18: in an object made from the files 1..n of a prefix, q_stars[k] is
\* the sequence of the q vectors of file k+1 in file order, q_tot is the
\* concatenation of the stars, there is one matrix per q vector, and the
\* matrix at the flat index (lengths of the stars before k) + j holds what
\* the block of the j-th q vector of file k+1 gives.  save_qe writes star k
\* to file k+1 with the matrices of the same flat indices, and diagonalizes
\* for the summary of file k+1 the first matrix of star k, whose q vector
\* heads the summary.
C18_IndexMapping ==
  [][/\ \A i \in InstIds, prefix \in BlockPrefixes, nqirr \in 1..2 :
          FreshFrom(i, prefix, nqirr) =>
            LET v == ViewOf(insts'[i], structs', qtots', qstars') IN
            /\ Len(v.q_stars) = nqirr
            /\ \A k \in 1..nqirr : v.q_stars[k] = QVectors(files[<<prefix, k>>])
            /\ v.q_tot = Concat(v.q_stars)
            /\ Len(v.dynmats) = Len(v.q_tot)
            /\ \A k \in 1..nqirr :
                 LET lines == files[<<prefix, k>>] IN
                 \A j \in 1..Len(v.q_stars[k]) :
                   LET m == v.dynmats[FlatOf(v.q_stars, k, j)] IN
                   \A R \in 1..Rows(m), C \in 1..Rows(m) :
                     Supplied(lines, QPos(lines)[j], R, C)
                       => m[R][C] = SuppliedValue(lines, QPos(lines)[j], R, C)
     /\ \A filename \in SavePrefixes :
          (last'.op = "save_qe" /\ last'.err = NoErr /\ DoSave(1, filename, FALSE)) =>
            /\ \A k \in 1..View(1).nqirr :
                 LET lines == files'[<<filename, k>>] IN
                 /\ QVectors(lines) = View(1).q_stars[k]
                 /\ \A j \in 1..Len(View(1).q_stars[k]) :
                      LET m == View(1).dynmats[FlatOf(View(1).q_stars, k, j)] IN
                      \A R \in 1..Rows(m), C \in 1..Rows(m) :
                        SuppliedValue(lines, QPos(lines)[j], R, C) = m[R][C]
                 /\ lines[DiagPos(lines) + 2] = QLine(View(1).q_stars[k][1])
            /\ saved'[1].diagonalized =
                 [k \in 1..View(1).nqirr |-> FlatOf(View(1).q_stars, k, 1) - 1]]_vars
\* An object made from two files, a star of one and a star of two q
\* vectors, has been saved.
C18_Witness ==
  /\ last.op = "save_qe" /\ last.err = NoErr
  /\ saved # None /\ saved[1].view.nqirr = 2
  /\ Len(saved[1].view.q_stars) = 2
  /\ Len(saved[1].view.q_stars[1]) = 1 /\ Len(saved[1].view.q_stars[2]) = 2
  /\ Len(saved[1].view.dynmats) = 3
  /\ saved[1].diagonalized = <<0, 1>>
  /\ QVectors(files[<<saved[1].filename, 2>>]) = saved[1].view.q_stars[2]

\* C19: for a non-empty list isolate_atoms of indices below the number of
\* atoms, every structure ExtractRandomStructures returns has exactly
\* len(isolate_atoms) atoms, in its list of species and in its array of
\* coordinates as in N_atoms, and its j-th atom has the displaced
\* coordinates and the species of atom isolate_atoms[j].
C19_IsolatedAtoms ==
  [][\A size \in 0..2, isolate_atoms \in IsolateArgs, d \in Displacements :
       (/\ last'.op = "ExtractRandomStructures" /\ last'.err = NoErr
        /\ View(1).initialized
        /\ isolate_atoms # <<>>
        /\ DoExtractRandomStructures(1, size, 0, isolate_atoms, d))
         => \A s \in 1..size :
              LET t == last'.ret[1][s]
                  st == View(1).structure[1]
              IN /\ t.N_atoms = Len(isolate_atoms)
                 /\ Len(t.atoms) = Len(isolate_atoms)
                 /\ Len(t.coords) = Len(isolate_atoms)
                 /\ \A j \in 1..Len(isolate_atoms) :
                      /\ t.atoms[j] = st.atoms[isolate_atoms[j] + 1]
                      /\ t.coords[j] = [x \in 1..3 |-> st.coords[isolate_atoms[j] + 1][x] + d]]_vars

\* C20: CheckCompatibility(other) returns False for an other that is no
\* Phonons, and when it returns True the two objects have the same number
\* of atoms, the same species atom by atom and the same nqirr: it returns
\* False when the species of some atom differ.
C20_CompatibleSpecies ==
  [][\A i \in InstIds, j \in {0} \cup InstIds :
       (/\ last'.op = "CheckCompatibility" /\ last'.err = NoErr
        /\ DoCheckCompatibility(i, j))
         => IF j = 0 THEN last'.ret = Some(FALSE)
            ELSE last'.ret = Some(TRUE) =>
                   /\ View(i).structure[1].N_atoms = View(j).structure[1].N_atoms
                   /\ View(i).nqirr = View(j).nqirr
                   /\ View(i).structure[1].atoms = View(j).structure[1].atoms]_vars

\* What LoadFromQE(prefix, nqirr) leaves in a new object, in the file
\* system of the current state.
FreshLoad(prefix, nqirr) ==
  LoadFromQE(CallState(NewPhonons(1, nqirr), structs,
                       [qtots EXCEPT ![1] = <<>>], [qstars EXCEPT ![1] = <<>>]),
             files, prefix, nqirr, FALSE)

\* C21: a LoadFromQE(prefix, n) that returns, on an object that already
\* holds loaded matrices, leaves the matrices, q_tot, q_stars and the
\* structure that the same call leaves in a new object: the earlier ones
\* are replaced, not kept in front of the new ones.
C21_ReloadReplaces ==
  [][\A prefix \in {"a", "c"} :
       (/\ last'.op = "LoadFromQE" /\ last'.err = NoErr
        /\ View(1).dynmats # <<>>
        /\ DoLoadFromQE(1, prefix, 1, FALSE))
         => LET after == ViewOf(insts'[1], structs', qtots', qstars')
                fresh == FreshLoad(prefix, 1)
            IN /\ after.structure = Some(fresh.st)
               /\ after.dynmats = fresh.dynmats
               /\ after.q_tot = fresh.q_tot
               /\ after.q_stars = fresh.q_stars]_vars

\* C22: a LoadFromQE call that read the files 1..k-1, k >= 2, and found
\* file k missing has left the structure, the matrices, q_tot and q_stars
\* of the object as they were before the call.
C22_NoPartialLoad ==
  [][\A a \in LoadArgs :
       (/\ last'.op = "LoadFromQE"
        /\ 1 \in DOMAIN insts
        /\ ReachesMissing(1, a) /\ FirstMissing(files, a) >= 1
        /\ LoadCall(1, a))
         => LET after == ViewOf(insts'[1], structs', qtots', qstars')
            IN /\ last'.err # NoErr
               /\ after.structure = View(1).structure
               /\ after.dynmats = View(1).dynmats
               /\ after.q_tot = View(1).q_tot
               /\ after.q_stars = View(1).q_stars]_vars

\* The markers of the two loops.
LacksMarker(lines) ==
  \/ \A k \in 1..Len(lines) : ~HasCartesianAxes(lines[k])
  \/ \A k \in 1..Len(lines) : ~HasDiagonalizing(lines[k])
ScanEnded == scan # None /\ scan[1].phase \in {"raised", "returned"}
\* The loops have consumed no more lines than the file has; a scan that
\* returned found both markers; and a scan that ended left what LoadFromQE
\* leaves for the file.
ScanBounded ==
  scan # None =>
    /\ scan[1].iterations <= Len(files[scan[1].path])
    /\ scan[1].phase = "returned" => ~LacksMarker(files[scan[1].path])
    /\ ScanEnded => scan[1].W = LoadFile(ScanStart, files[scan[1].path], 0)
    /\ (ScanEnded /\ LacksMarker(files[scan[1].path])) => scan[1].W.err # NoErr

====
